---- MODULE Spec2Model ----
(***************************************************************************)
(* APROFAM ClinNote: the text-to-section classification engine, the merge  *)
(* engine and the remote-analysis queue of the dictation client, with the  *)
(* heuristic backend /api/clinote/analyze.                                 *)
(*                                                                         *)
(* Text is modelled at the character level: a text is a TLA+ string, read  *)
(* with Len, SubSeq and \o exactly as the JavaScript reads it with length, *)
(* slice and +.                                                            *)
(***************************************************************************)
EXTENDS Integers, Sequences, FiniteSets, TLC

(***************************************************************************)
(* Characters and the JavaScript string primitives the code uses.          *)
(***************************************************************************)
Ch(s, i) == SubSeq(s, i, i)

UpperChars == "ABCDEFGHIJKLMNOPQRSTUVWXYZÁÉÍÓÚÑ"
LowerChars == "abcdefghijklmnopqrstuvwxyzáéíóúñ"
DigitChars == "0123456789"

UpperSet == {Ch(UpperChars, i) : i \in 1..Len(UpperChars)}
LowerMap == [c \in UpperSet |->
               Ch(LowerChars, CHOOSE i \in 1..Len(UpperChars) : Ch(UpperChars, i) = c)]
DigitSet == {Ch(DigitChars, i) : i \in 1..Len(DigitChars)}
\* \w of a JavaScript regular expression without the u flag: ASCII only, so
\* an accented letter is NOT a word character.
AsciiWordSet == {Ch(UpperChars, i) : i \in 1..26} \cup {Ch(LowerChars, i) : i \in 1..26}
                  \cup DigitSet \cup {"_"}
\* \s as far as the modelled texts go: blank and newline.
WhiteSet == {" ", "\n"}

IsSpace(c) == c \in WhiteSet
IsDigit(c) == c \in DigitSet
IsWordChar(c) == c \in AsciiWordSet

LowerCh(c) == IF c \in UpperSet THEN LowerMap[c] ELSE c

RECURSIVE toLowerRange(_, _, _)
\* the characters lo..hi of s in lower case (halving keeps the evaluation shallow)
toLowerRange(s, lo, hi) ==
  IF lo > hi THEN ""
  ELSE IF lo = hi THEN LowerCh(Ch(s, lo))
  ELSE LET mid == (lo + hi) \div 2
       IN  toLowerRange(s, lo, mid) \o toLowerRange(s, mid + 1, hi)
\* String.prototype.toLowerCase
toLowerCase(s) == toLowerRange(s, 1, Len(s))

\* s.slice(i) with a 1-based i
SliceFrom(s, i) == SubSeq(s, i, Len(s))
\* the text p lies in s at position i
At(s, i, p) == i >= 1 /\ i + Len(p) - 1 <= Len(s) /\ SubSeq(s, i, i + Len(p) - 1) = p
\* String.prototype.includes
includes(s, p) == \E i \in 1..(Len(s) - Len(p) + 1) : At(s, i, p)
IncludesAny(s, ps) == \E p \in ps : includes(s, p)
\* String.prototype.indexOf, 0-based as in JavaScript, -1 when absent
indexOf(s, p) ==
  IF includes(s, p)
    THEN (CHOOSE i \in 1..(Len(s) - Len(p) + 1) :
            At(s, i, p) /\ \A j \in 1..(i - 1) : ~At(s, j, p)) - 1
    ELSE -1
StartsWith(s, p) == At(s, 1, p)

\* what s.replace(/\s+/g, " ") leaves of the character at i: a run of white
\* space becomes the single blank written in place of its first character
CollapseCh(s, i) ==
  IF ~IsSpace(Ch(s, i)) THEN Ch(s, i)
  ELSE IF i > 1 /\ IsSpace(Ch(s, i - 1)) THEN ""
  ELSE " "

RECURSIVE CollapseRange(_, _, _)
CollapseRange(s, lo, hi) ==
  IF lo > hi THEN ""
  ELSE IF lo = hi THEN CollapseCh(s, lo)
  ELSE LET mid == (lo + hi) \div 2
       IN  CollapseRange(s, lo, mid) \o CollapseRange(s, mid + 1, hi)
\* s.replace(/\s+/g, " ")
collapseSpaces(s) == CollapseRange(s, 1, Len(s))

\* String.prototype.trim
trim(s) ==
  LET ink == {i \in 1..Len(s) : ~IsSpace(Ch(s, i))}
  IN  IF ink = {} THEN ""
      ELSE SubSeq(s, CHOOSE i \in ink : \A j \in ink : i <= j,
                     CHOOSE i \in ink : \A j \in ink : i >= j)

\* safeTrim: (s || "").replace(/\s+/g, " ").trim()
safeTrim(s) == trim(collapseSpaces(s))

(***************************************************************************)
(* Pieces of the regular expressions of the classifier.                    *)
(***************************************************************************)
\* \b between positions i-1 and i (1 <= i <= Len(s)+1)
WordCharAt(s, i) == i >= 1 /\ i <= Len(s) /\ IsWordChar(Ch(s, i))
Boundary(s, i) == WordCharAt(s, i - 1) # WordCharAt(s, i)

RECURSIVE SkipSpaces(_, _)
\* the position after \s* read greedily from i
SkipSpaces(s, i) == IF i <= Len(s) /\ IsSpace(Ch(s, i)) THEN SkipSpaces(s, i + 1) ELSE i
RECURSIVE SkipDigits(_, _)
\* the position after \d* read greedily from i
SkipDigits(s, i) == IF i <= Len(s) /\ IsDigit(Ch(s, i)) THEN SkipDigits(s, i + 1) ELSE i

\* /\bw\b/ for a literal word w
HasWord(s, w) ==
  \E i \in 1..(Len(s) - Len(w) + 1) :
    At(s, i, w) /\ Boundary(s, i) /\ Boundary(s, i + Len(w))

\* /\b\d+\s*mg\b/
HasDoseMg(s) ==
  \E i \in 1..Len(s) :
    /\ Boundary(s, i) /\ IsDigit(Ch(s, i))
    /\ LET j == SkipSpaces(s, SkipDigits(s, i))
       IN  At(s, j, "mg") /\ Boundary(s, j + 2)

\* /\b<word>\s*\d+\s*(u1|u2|...)\b/ : a word, a number and one of the units
HasWordNumberUnit(s, word, units) ==
  \E i \in 1..Len(s) :
    /\ Boundary(s, i) /\ At(s, i, word)
    /\ LET d == SkipSpaces(s, i + Len(word))
           e == SkipDigits(s, d)
           u == SkipSpaces(s, e)
       IN  /\ e > d
           /\ \E unit \in units : At(s, u, unit) /\ Boundary(s, u + Len(unit))

\* /\bcada\s*\d+\s*(hora|horas)\b/
HasEveryHours(s) == HasWordNumberUnit(s, "cada", {"hora", "horas"})
\* /\bpor\s*\d+\s*(d[ií]a|d[ií]as|semanas)\b/
HasForDaysWeeks(s) ==
  HasWordNumberUnit(s, "por", {"dia", "día", "dias", "días", "semanas"})
\* /\bpor\s*\d+\s*d[ií]as\b/
HasForDays(s) == HasWordNumberUnit(s, "por", {"dias", "días"})

\* /\b\d{2,3}\s*\/\s*\d{2,3}\b/
HasPressurePair(s) ==
  \E i \in 1..Len(s) :
    /\ Boundary(s, i) /\ IsDigit(Ch(s, i))
    /\ LET e == SkipDigits(s, i)
           sl == SkipSpaces(s, e)
           d == SkipSpaces(s, sl + 1)
           f == SkipDigits(s, d)
       IN  /\ e - i \in {2, 3}
           /\ At(s, sl, "/")
           /\ f - d \in {2, 3}
           /\ Boundary(s, f)

(***************************************************************************)
(* The ten section keys, in the fixed order of SECTION_DEFS and of the     *)
(* score object of bestBucket.                                             *)
(***************************************************************************)
SECTION_DEFS ==
  <<"motivo", "antecedentes", "impresion", "signos", "diagnostico",
    "prescripcion", "plan", "estudios", "referencias", "acuerdos">>
SectionKeys == {SECTION_DEFS[i] : i \in DOMAIN SECTION_DEFS}
DEFAULT_SECTIONS == [k \in SectionKeys |-> ""]
\* key: null
NoKey == "(null)"

(***************************************************************************)
(* detectSectionHeader (client of part_002 and backend analyze.js share    *)
(* the table). Every label is written out as the lower-case texts its      *)
(* pattern accepts on whitespace-normalised input, in the order the        *)
(* regular expression tries them; the /i flag is the lower-casing.         *)
(***************************************************************************)
HeaderLabels ==
  <<[key |-> "motivo",
     labels |-> <<"motivo de la consulta", "motivo de la la consulta",
                  "motivo de la de consulta", "motivo de la ",
                  "motivo de consulta", "motivo de la consulta",
                  "motivo de de consulta", "motivo de ",
                  "motivo consulta", "motivo la consulta",
                  "motivo de consulta", "motivo ">>],
    [key |-> "antecedentes",
     labels |-> <<"antecedentes", "historia clinica", "historia clínica", "hx">>],
    [key |-> "impresion",
     labels |-> <<"impresion clinica", "impresion clínica", "impresión clinica",
                  "impresión clínica", "impresion", "impresión">>],
    [key |-> "signos", labels |-> <<"signos vitales", "vitales">>],
    [key |-> "diagnostico", labels |-> <<"diagnostico", "diagnóstico", "dx">>],
    [key |-> "prescripcion",
     labels |-> <<"prescripcion", "prescripción", "receta", "medicacion",
                  "medicación">>],
    [key |-> "plan", labels |-> <<"plan", "indicaciones">>],
    [key |-> "estudios",
     labels |-> <<"estudios solicitados", "laboratorio", "imagenologia",
                  "imagenología", "examenes", "exámenes">>],
    [key |-> "referencias", labels |-> <<"referencias", "interconsulta", "referir">>],
    [key |-> "acuerdos",
     labels |-> <<"acuerdos", "proximos pasos", "próximos pasos", "seguimiento">>]>>

\* The length of the match of  ^(label)(\s*[:\-])\s*  on t, 0 when it fails.
HeaderMatchLen(t, label) ==
  IF ~StartsWith(toLowerCase(t), label) THEN 0
  ELSE LET j == SkipSpaces(t, Len(label) + 1)
       IN  IF j <= Len(t) /\ Ch(t, j) \in {":", "-"}
             THEN SkipSpaces(t, j + 1) - 1
             ELSE 0

RECURSIVE FirstLabelLen(_, _, _)
FirstLabelLen(t, labels, i) ==
  IF i > Len(labels) THEN 0
  ELSE IF HeaderMatchLen(t, labels[i]) > 0 THEN HeaderMatchLen(t, labels[i])
  ELSE FirstLabelLen(t, labels, i + 1)

RECURSIVE DetectFrom(_, _, _)
\* for (const h of headers) if (h.re.test(t)) return {key, cleaned}
DetectFrom(t, table, i) ==
  IF i > Len(table) THEN [key |-> NoKey, cleaned |-> t]
  ELSE LET n == FirstLabelLen(t, table[i].labels, 1)
       IN  IF n > 0
             THEN [key |-> table[i].key, cleaned |-> safeTrim(SliceFrom(t, n + 1))]
             ELSE DetectFrom(t, table, i + 1)

DetectWith(text, table) ==
  LET t == safeTrim(text)
  IN  IF t = "" THEN [key |-> NoKey, cleaned |-> ""] ELSE DetectFrom(t, table, 1)

\* a detector that knows no label
detectNoHeader(text) == [key |-> NoKey, cleaned |-> safeTrim(text)]

detectSectionHeader(text) == DetectWith(text, HeaderLabels)

(***************************************************************************)
(* splitSegments: t.split(/[\.\n;]+/g).map(safeTrim).filter(Boolean)       *)
(***************************************************************************)
Terminators == {".", "\n", ";"}

RECURSIVE SplitFrom(_, _)
\* the pieces of t from position i on, cut at every terminator (a run of
\* terminators leaves empty pieces between them, which the filter drops)
SplitFrom(t, i) ==
  LET cuts == {j \in i..Len(t) : Ch(t, j) \in Terminators}
  IN  IF cuts = {} THEN <<SliceFrom(t, i)>>
      ELSE LET j == CHOOSE c \in cuts : \A d \in cuts : c <= d
           IN  <<SubSeq(t, i, j - 1)>> \o SplitFrom(t, j + 1)

RECURSIVE TrimAndFilter(_)
\* .map((x) => safeTrim(x)).filter(Boolean)
TrimAndFilter(xs) ==
  IF xs = <<>> THEN <<>>
  ELSE (IF safeTrim(Head(xs)) = "" THEN <<>> ELSE <<safeTrim(Head(xs))>>)
         \o TrimAndFilter(Tail(xs))

splitSegments(text) ==
  LET t == safeTrim(text)
  IN  IF t = "" THEN <<>> ELSE TrimAndFilter(SplitFrom(t, 1))

(***************************************************************************)
(* splitIfMixedRxDx                                                        *)
(***************************************************************************)
\* "diagnosis keyword must occur past offset 8"
MixedSplitMinIdx == 8

hasDxEvidence(seg) ==
  LET l == toLowerCase(seg)
  IN  includes(l, "diagnos") \/ HasWord(l, "dx") \/ includes(l, "impresi")

hasRxEvidence(seg) ==
  LET l == toLowerCase(seg)
  IN  \/ IncludesAny(l, {"tratamiento", "receta", "prescrib", "se le deja",
                         "se deja", "se indica"})
      \/ HasDoseMg(l)
      \/ IncludesAny(l, {"cada ", "por ", "días", "dias"})

\* a split wherever "diagnos" occurs, without the offset threshold
splitIfMixedAnywhere(seg) ==
  LET idx == indexOf(toLowerCase(seg), "diagnos")
  IN  IF hasDxEvidence(seg) /\ hasRxEvidence(seg) /\ idx >= 0
        THEN TrimAndFilter(<<SubSeq(seg, 1, idx), SliceFrom(seg, idx + 1)>>)
        ELSE <<seg>>

splitIfMixedRxDx(seg) ==
  LET idx == indexOf(toLowerCase(seg), "diagnos")
  IN  IF hasDxEvidence(seg) /\ hasRxEvidence(seg) /\ idx > MixedSplitMinIdx
        THEN TrimAndFilter(<<SubSeq(seg, 1, idx), SliceFrom(seg, idx + 1)>>)
        ELSE <<seg>>

(***************************************************************************)
(* bestBucket: the weighted votes and the selection loop.                  *)
(***************************************************************************)
MedNames ==
  {"amoxicilina", "azitromicina", "ibuprofeno", "paracetamol", "acetaminofen",
   "acetaminofén", "naproxeno", "omeprazol", "metformina", "loratadina",
   "salbutamol", "prednisona"}

WeightStrong == 6
WeightMedium == 4
WeightWeak == 3
WeightSoft == 2

bucketScore(seg) ==
  LET s == toLowerCase(seg)
      dx == \/ IncludesAny(s, {"diagnos", "impresi", "compatible con", "se concluye"})
            \/ HasWord(s, "dx")
      med == IncludesAny(s, MedNames)
      rx == \/ IncludesAny(s, {"tratamiento", "receta", "prescrib", "se le deja",
                               "se deja", "se indica", "medic"})
            \/ HasDoseMg(s) \/ HasEveryHours(s) \/ HasForDaysWeeks(s)
      vit == \/ HasWord(s, "ta") \/ HasWord(s, "fc") \/ HasWord(s, "fr")
             \/ IncludesAny(s, {"presión", "mmhg", "pulso", "lpm", "rpm", "satur",
                                "sat", "temper"})
             \/ HasPressurePair(s)
      ant == IncludesAny(s, {"anteced", "alerg", "hipert", "diab", "cirug", "asma",
                             "medicación crónica", "medicacion cronica"})
      mot == IncludesAny(s, {"dolor", "fiebre", "vómit", "vomit", "náuse", "nause",
                             "diarre", "tos", "gargant", "cefale", "mareo",
                             "cansancio", "deshidrat", "inicio de", "desde hace",
                             "durante"})
      est == IncludesAny(s, {"laboratorio", "rayos", "rx", "ultra", "examen", "prueba"})
      pln == IncludesAny(s, {"reposo", "hidrat", "control", "seguimiento", "retornar",
                             "cita"})
      ref == IncludesAny(s, {"interconsulta", "refer", "especialista"})
      imp == IncludesAny(s, {"cuadro", "compatible", "sugiere", "probable"})
      W(b, w) == IF b THEN w ELSE 0
  IN  [k \in SectionKeys |->
         CASE k = "diagnostico" -> W(dx, WeightStrong)
           [] k = "prescripcion" -> W(med, WeightStrong) + W(rx, WeightStrong)
           [] k = "signos" -> W(vit, WeightStrong)
           [] k = "antecedentes" -> W(ant, WeightMedium)
           [] k = "motivo" -> W(mot, WeightMedium)
           [] k = "estudios" -> W(est, WeightMedium)
           [] k = "plan" -> W(pln, WeightWeak)
           [] k = "referencias" -> W(ref, WeightWeak)
           [] k = "impresion" -> W(imp, WeightSoft)
           [] OTHER -> 0]

\* if (v > bestScore) { bestScore = v; best = k; }
\* the comparison with >= in place of >: a later key of equal score wins
BetterOrEqualScore(v, bestScore) == v >= bestScore

\* if (v > bestScore)
BetterScore(v, bestScore) == v > bestScore

RECURSIVE pickBest(_, _, _, _)
\* the loop over Object.entries(score), from entry i with (best, bestScore)
pickBest(score, i, best, bestScore) ==
  IF i > Len(SECTION_DEFS) THEN [best |-> best, bestScore |-> bestScore]
  ELSE IF BetterScore(score[SECTION_DEFS[i]], bestScore)
         THEN pickBest(score, i + 1, SECTION_DEFS[i], score[SECTION_DEFS[i]])
         ELSE pickBest(score, i + 1, best, bestScore)

bestBucketOf(score, fallbackKey) ==
  LET r == pickBest(score, 1, fallbackKey, 0)
  IN  IF r.bestScore > 0 THEN r.best ELSE fallbackKey

bestBucket(seg, fallbackKey) == bestBucketOf(bucketScore(seg), fallbackKey)

(***************************************************************************)
(* smartDistributeText (client): local distribution of a delta.            *)
(***************************************************************************)
\* the assignment without the previous text
appendReplacing(sections, key, txt) == [sections EXCEPT ![key] = safeTrim(txt)]

\* next[key] = safeTrim(`${next[key] || ""} ${txt}`)
appendTo(sections, key, txt) ==
  [sections EXCEPT ![key] = safeTrim(sections[key] \o " " \o txt)]

RECURSIVE distributePieces(_, _, _)
\* for (const seg of pieces) { bucket = bestBucket(seg, fallbackKey); next[bucket] += seg }
distributePieces(next, pieces, fallbackKey) ==
  IF pieces = <<>> THEN next
  ELSE distributePieces(
         appendTo(next, bestBucket(Head(pieces), fallbackKey), Head(pieces)),
         Tail(pieces), fallbackKey)

\* the body of the loop of smartDistributeText for one segment
distributeSegment(next, seg0, fallbackKey) ==
  LET h == detectSectionHeader(seg0)
      cleaned == safeTrim(h.cleaned)
  IN  IF h.key # NoKey
        THEN (IF cleaned # "" THEN appendTo(next, h.key, cleaned) ELSE next)
        ELSE distributePieces(next, splitIfMixedRxDx(seg0), fallbackKey)

RECURSIVE distributeSegments(_, _, _)
distributeSegments(next, segs, fallbackKey) ==
  IF segs = <<>> THEN next
  ELSE distributeSegments(distributeSegment(next, Head(segs), fallbackKey),
                          Tail(segs), fallbackKey)

smartDistributeText(prev, text, fallbackKey) ==
  [next |-> distributeSegments(prev, splitSegments(text), fallbackKey),
   did |-> splitSegments(text) # <<>>]

(***************************************************************************)
(* Backend /api/clinote/analyze (analyze.js).                              *)
(***************************************************************************)
BackendFallback == "impresion"
PendingMarker == " (dosis/frecuencia/duración: pendiente)"

\* a merge that puts the new text in place of the old
mergeAppendReplacing(sections, key, val) ==
  LET v == safeTrim(val)
  IN  IF v = "" THEN sections ELSE [sections EXCEPT ![key] = v]

mergeAppend(sections, key, val) ==
  LET v == safeTrim(val)
  IN  IF v = "" THEN sections
      ELSE [sections EXCEPT ![key] = safeTrim(sections[key] \o " " \o v)]

RECURSIVE analyzePieces(_, _)
analyzePieces(sections, pieces) ==
  IF pieces = <<>> THEN sections
  ELSE analyzePieces(
         mergeAppend(sections, bestBucket(Head(pieces), BackendFallback), Head(pieces)),
         Tail(pieces))

analyzeSegment(sections, seg0) ==
  LET h == detectSectionHeader(seg0)
  IN  IF h.key # NoKey THEN mergeAppend(sections, h.key, h.cleaned)
      ELSE analyzePieces(sections, splitIfMixedRxDx(seg0))

RECURSIVE analyzeSegments(_, _)
analyzeSegments(sections, segs) ==
  IF segs = <<>> THEN sections
  ELSE analyzeSegments(analyzeSegment(sections, Head(segs)), Tail(segs))

\* hasDose of analyzeDelta and of buildQuestions (all three patterns carry /i)
hasDose(rx) ==
  LET l == toLowerCase(rx)
  IN  HasDoseMg(l) \/ HasEveryHours(l) \/ HasForDays(l)

\* the "complemento": a prescription without dose is marked as pending
markPendingDose(sections) ==
  LET rx == safeTrim(sections["prescripcion"])
  IN  IF rx # "" /\ ~hasDose(rx) /\ ~HasWord(toLowerCase(rx), "pendiente")
        THEN [sections EXCEPT !["prescripcion"] = safeTrim(rx \o PendingMarker)]
        ELSE sections

analyzeDelta(deltaText, currentSections) ==
  markPendingDose(analyzeSegments(currentSections, splitSegments(deltaText)))

\* handler: the sections of the response to {current: {sections}, input: {delta_text}}
handlerSections(currentSections, deltaText) ==
  LET delta == trim(deltaText)
  IN  IF delta # "" THEN analyzeDelta(delta, currentSections) ELSE currentSections

DoseQuestion == "La prescripción no incluye dosis/frecuencia/duración. ¿Podés especificarlas?"
DiagnosisQuestion == "¿Cuál es el diagnóstico final?"
VitalsQuestion == "¿Se registraron signos vitales (TA, FC, FR, T°, SatO2)?"
HydrationQuestion == "¿Se indicó plan de hidratación y signos de alarma?"
\* q.slice(0, 6)
MaxQuestions == 6

\* q.push(text) when cond
pushIf(cond, text) == IF cond THEN <<text>> ELSE <<>>

\* a prescription with text always counts as one that has its dose
hasDoseAlways(rx) == TRUE

\* hasDose of buildQuestions: the three patterns, letter case apart
questionHasDose(rx) == hasDose(rx)

\* the questions for the trimmed fields dx, rx, vit, mot
questionsFor(dx, rx, vit, mot) ==
  pushIf(mot # "" /\ vit = "", VitalsQuestion)
    \o pushIf(rx # "" /\ ~questionHasDose(rx), DoseQuestion)
    \o pushIf(dx = "", DiagnosisQuestion)
    \o pushIf(mot # "" /\ IncludesAny(toLowerCase(mot), {"deshidrat", "vómit", "vomit"}),
              HydrationQuestion)

firstN(q, n) == SubSeq(q, 1, IF Len(q) < n THEN Len(q) ELSE n)

buildQuestions(sections) ==
  firstN(questionsFor(safeTrim(sections["diagnostico"]), safeTrim(sections["prescripcion"]),
                      safeTrim(sections["signos"]), safeTrim(sections["motivo"])),
         MaxQuestions)

\* a spread that keeps only the keys whose new value has text
spreadDefined(p, q) == [k \in {j \in DOMAIN q : q[j] # ""} |-> q[k]]

\* { ...p, ...q }: the keys of both, q's value where it has one

spread(p, q) ==
  [k \in DOMAIN p \cup DOMAIN q |-> IF k \in DOMAIN q THEN q[k] ELSE p[k]]

(***************************************************************************)
(* Merge engine of App.jsx.                                                *)
(***************************************************************************)
\* mergeText without the containment test
mergeTextAlwaysAppend(oldTxt, newTxt) ==
  LET a == safeTrim(oldTxt)
      b == safeTrim(newTxt)
  IN  IF b = "" THEN a
      ELSE IF a = "" THEN b
      ELSE trim(a \o " " \o b)

mergeText(oldTxt, newTxt) ==
  LET a == safeTrim(oldTxt)
      b == safeTrim(newTxt)
  IN  IF b = "" THEN a
      ELSE IF a = "" THEN b
      ELSE IF includes(toLowerCase(a), toLowerCase(b)) THEN a
      ELSE trim(a \o " " \o b)

(***************************************************************************)
(* The regular expressions of App.jsx.  A pattern is a tree; Match gives   *)
(* the positions at which a match begun at i may end, in the order the     *)
(* backtracking matcher tries them (greedy first, alternatives from left   *)
(* to right).  Patterns carrying /i are written in lower case and matched  *)
(* on the lower-cased text.                                                *)
(***************************************************************************)
Lit(s) == [t |-> "lit", s |-> s]
Cat(xs) == [t |-> "seq", xs |-> xs]
Alt(xs) == [t |-> "alt", xs |-> xs]
\* (?:x)?
Opt(x) == [t |-> "opt", x |-> x]
\* [cls]{lo,hi}, greedy
Rep(cls, lo, hi) == [t |-> "rep", cls |-> cls, lo |-> lo, hi |-> hi]
\* [cls]{lo,}, greedy: the count-down of RunLen never reaches 0 from -1
AtLeast(cls, lo) == [t |-> "rep", cls |-> cls, lo |-> lo, hi |-> -1]
\* \b
Wb == [t |-> "wb"]
\* $
AtEnd == [t |-> "end"]
\* (.+?)(?=stop)
Lazy(stop) == [t |-> "lazy", stop |-> stop]
\* (.+)$
Rest == [t |-> "rest"]

\* \s+ and \s*
Ws1 == AtLeast(WhiteSet, 1)
Ws0 == AtLeast(WhiteSet, 0)
\* one of the letters: [oó], [ií], ...
OneOf(cs) == Rep(cs, 1, 1)
\* a literal word between two \b
Word(w) == Cat(<<Wb, Lit(w), Wb>>)

RECURSIVE RunLen(_, _, _, _)
\* how many characters from i on lie in cls, at most hi
RunLen(l, i, cls, hi) ==
  IF hi = 0 \/ i > Len(l) \/ Ch(l, i) \notin cls THEN 0
  ELSE 1 + RunLen(l, i + 1, cls, hi - 1)

RECURSIVE Flatten(_)
Flatten(xss) == IF xss = <<>> THEN <<>> ELSE Head(xss) \o Flatten(Tail(xss))

RECURSIVE Match(_, _, _)
Match(re, l, i) ==
  CASE re.t = "lit" -> IF At(l, i, re.s) THEN <<i + Len(re.s)>> ELSE <<>>
    [] re.t = "wb" -> IF Boundary(l, i) THEN <<i>> ELSE <<>>
    [] re.t = "end" -> IF i = Len(l) + 1 THEN <<i>> ELSE <<>>
    [] re.t = "rest" -> IF i <= Len(l) THEN <<Len(l) + 1>> ELSE <<>>
    [] re.t = "rep" ->
         \* the longest run first, then one character less, down to lo
         LET n == RunLen(l, i, re.cls, re.hi)
         IN  IF n < re.lo THEN <<>> ELSE [k \in 1..(n - re.lo + 1) |-> i + n - k + 1]
    [] re.t = "opt" -> Match(re.x, l, i) \o <<i>>
    [] re.t = "alt" -> Flatten([k \in DOMAIN re.xs |-> Match(re.xs[k], l, i)])
    [] re.t = "seq" ->
         IF re.xs = <<>> THEN <<i>>
         ELSE LET heads == Match(Head(re.xs), l, i)
              IN  Flatten([k \in DOMAIN heads |-> Match(Cat(Tail(re.xs)), l, heads[k])])
    [] re.t = "lazy" ->
         LET ends == {j \in (i + 1)..(Len(l) + 1) : Match(re.stop, l, j) # <<>>}
         IN  IF ends = {} THEN <<>>
             ELSE <<CHOOSE j \in ends : \A k \in ends : j <= k>>

RECURSIVE PathFrom(_, _, _, _)
\* the first way, in the matcher's order, to match the parts one after the
\* other from i: the positions <<i, end of part 1, end of part 2, ...>>,
\* or <<>> when there is none
PathFrom(parts, l, i, c) ==
  IF parts = <<>> THEN <<i>>
  ELSE LET cands == Match(Head(parts), l, i)
       IN  IF c > Len(cands) THEN <<>>
           ELSE LET rest == PathFrom(Tail(parts), l, cands[c], 1)
                IN  IF rest # <<>> THEN <<i>> \o rest
                    ELSE PathFrom(parts, l, i, c + 1)

\* String.prototype.match without /g: the leftmost match
Search(parts, l) ==
  LET starts == {i \in 1..(Len(l) + 1) : PathFrom(parts, l, i, 1) # <<>>}
  IN  IF starts = {} THEN <<>>
      ELSE PathFrom(parts, l, CHOOSE i \in starts : \A k \in starts : i <= k, 1)

\* the text of part k of a match m of Search, cut from t
Group(t, m, k) == SubSeq(t, m[k], m[k + 1] - 1)

(***************************************************************************)
(* Auto-extraction of App.jsx: the rules that fill sections and patient    *)
(* fields from running text.                                               *)
(***************************************************************************)
\* the header table of App.jsx: the one above with "tratamiento" added
AppHeaderLabels ==
  [i \in DOMAIN HeaderLabels |->
     IF HeaderLabels[i].key = "prescripcion"
       THEN [key |-> "prescripcion",
             labels |-> HeaderLabels[i].labels \o <<"tratamiento">>]
       ELSE HeaderLabels[i]]

appDetectSectionHeader(text) == DetectWith(text, AppHeaderLabels)

Oo == OneOf({"o", "ó"})
Ii == OneOf({"i", "í"})
Aa == OneOf({"a", "á"})
Ee == OneOf({"e", "é"})
Uu == OneOf({"u", "ú"})
\* (?:es|:)
EsOrColon == Alt(<<Lit("es"), Lit(":")>>)
\* est[aá]\s*en
EstaEn == Cat(<<Lit("est"), Aa, Ws0, Lit("en")>>)
\* (?:\s*(?:en|:|est[aá]\s*en))?
OptEnColon == Opt(Cat(<<Ws0, Alt(<<Lit("en"), Lit(":"), EstaEn>>)>>))
\* (?:\s*(?:est[aá]\s*en|:))?
OptEstaEnColon == Opt(Cat(<<Ws0, Alt(<<EstaEn, Lit(":")>>)>>))

StopAntecedentes == Word("antecedentes")
StopRevision == Cat(<<Wb, Lit("revisi"), Oo, Lit("n"), Wb>>)
StopSignos == Word("signos")
StopImpresion == Cat(<<Wb, Lit("impresi"), Oo, Lit("n"), Wb>>)
StopDiagnostico == Cat(<<Wb, Lit("diagn"), Oo, Lit("stico"), Wb>>)
StopSeRecet == Cat(<<Wb, Lit("se"), Ws1, Lit("recet")>>)
StopPrescripcion == Cat(<<Wb, Lit("prescripci"), Oo, Lit("n"), Wb>>)
StopPlan == Word("plan")
StopSeguimiento == Word("seguimiento")

\* the tail shared by the lookaheads: ...|\bse\s+recet|\bprescripci[oó]n\b|\bplan\b|\bseguimiento\b|$
StopsAfterDx == <<StopSeRecet, StopPrescripcion, StopPlan, StopSeguimiento, AtEnd>>
StopsAfterImpresion == <<StopDiagnostico>> \o StopsAfterDx
StopsAfterAntecedentes == <<StopRevision, StopSignos, StopImpresion>> \o StopsAfterImpresion
StopsAfterMotivo == <<StopAntecedentes>> \o StopsAfterAntecedentes

MotivoRe ==
  <<Cat(<<Wb, Lit("motivo"), Ws1, Lit("de"), Ws1, Lit("l"), Opt(Lit("a")), Ws0,
          Lit("consulta"), Wb, Ws0, Opt(EsOrColon), Ws0,
          Opt(Cat(<<Lit("porque"), Ws0>>))>>),
    Lazy(Alt(StopsAfterMotivo))>>

AntecedentesRe ==
  <<Cat(<<Wb, Lit("antecedentes"), Wb, Ws0, Opt(Alt(<<Lit("son"), Lit(":")>>)), Ws0>>),
    Lazy(Alt(StopsAfterAntecedentes))>>

ImpresionRe ==
  <<Cat(<<Wb, Lit("impresi"), Oo, Lit("n"), Ws1, Lit("cl"), Ii, Lit("nica"), Wb, Ws0,
          Opt(EsOrColon), Ws0>>),
    Lazy(Alt(StopsAfterImpresion))>>

AparentementeRe ==
  <<Cat(<<Wb, Lit("aparentemente"), Ws1, Lit("se"), Ws1, Lit("trata"), Ws1, Lit("de"),
          Ws1>>),
    Lazy(Alt(StopsAfterImpresion))>>

DiagnosticoRe ==
  <<Cat(<<Wb, Lit("diagn"), Oo, Lit("stico"), Wb, Ws0,
          Alt(<<Lit("es"), Lit(":"), Cat(<<Lit("ser"), Ii, Lit("a")>>),
                Cat(<<Lit("principal"), Ws1, Lit("es")>>)>>),
          Ws0>>),
    Lazy(Alt(StopsAfterDx))>>

PrescriptionRe ==
  <<Cat(<<Wb,
          Alt(<<Cat(<<Lit("se"), Ws1, Lit("recet"), Aa>>),
                Cat(<<Lit("se"), Ws1, Lit("prescribe")>>),
                Cat(<<Lit("se"), Ws1, Lit("indica")>>),
                Cat(<<Lit("se"), Ws1, Lit("deja")>>)>>),
          Wb, Ws0>>),
    Lazy(Alt(<<Word("plan"), Word("seguimiento"), Word("regrese"), Word("cita"), AtEnd>>))>>

PlanRe ==
  <<Cat(<<Wb,
          Alt(<<Cat(<<Lit("plan"), Ws1, Lit("de"), Ws1, Lit("seguimiento")>>),
                Lit("plan"), Lit("seguimiento"), Lit("indicaciones"),
                Cat(<<Lit("se"), Ws1, Lit("necesita"), Ws1, Lit("que"), Ws1,
                      Lit("regrese")>>),
                Lit("regrese"),
                Cat(<<Lit("cita"), Ws1, Lit("de"), Ws1, Lit("control")>>)>>),
          Wb, AtLeast(WhiteSet \cup {":", ",", "-"}, 0)>>),
    Rest>>

TempRe ==
  <<Cat(<<Wb, Lit("temperatura"), Wb, OptEstaEnColon, Ws0>>),
    Cat(<<Rep(DigitSet, 2, 2), Opt(Cat(<<OneOf({".", ","}), Rep(DigitSet, 1, 1)>>))>>),
    Wb>>

\* \s*(?:\/|\s)\s*
PairSep == Cat(<<Ws0, Alt(<<Lit("/"), Rep(WhiteSet, 1, 1)>>), Ws0>>)

PressureRe ==
  <<Cat(<<Wb, Lit("presi"), Oo, Lit("n"), Wb, Opt(Cat(<<Ws0, Opt(Lit("arterial"))>>)),
          OptEstaEnColon, Ws0>>),
    Rep(DigitSet, 2, 3), PairSep, Rep(DigitSet, 2, 3), Wb>>

PaTaRe ==
  <<Cat(<<Wb, Alt(<<Lit("pa"), Lit("ta")>>), Wb, Ws0>>),
    Rep(DigitSet, 2, 3), PairSep, Rep(DigitSet, 2, 3), Wb>>

HeartRateRe ==
  <<Cat(<<Wb,
          Alt(<<Cat(<<Lit("frecuencia"), Ws1, Lit("card"), Ii, Lit("aca")>>),
                Lit("fc"), Lit("pulso")>>),
          Wb, OptEnColon, Ws0>>),
    Rep(DigitSet, 2, 3), Wb>>

RespRateRe ==
  <<Cat(<<Wb, Alt(<<Cat(<<Lit("frecuencia"), Ws1, Lit("respiratoria")>>), Lit("fr")>>),
          Wb, OptEnColon, Ws0>>),
    Rep(DigitSet, 1, 2), Wb>>

SaturationRe ==
  <<Cat(<<Wb,
          Alt(<<Cat(<<Lit("sat"), Opt(Cat(<<Lit("uraci"), Oo, Lit("n")>>)), Ws0,
                      Lit("o2")>>),
                Lit("spo2")>>),
          Wb, OptEnColon, Ws0>>),
    Rep(DigitSet, 2, 3), Wb>>

\* xs.join(sep)
RECURSIVE joinWith(_, _)
joinWith(xs, sep) ==
  IF xs = <<>> THEN ""
  ELSE IF Len(xs) = 1 THEN xs[1]
  ELSE xs[1] \o sep \o joinWith(Tail(xs), sep)

\* s.replace(",", "."): the first comma only
replaceComma(s) ==
  LET i == indexOf(s, ",")
  IN  IF i < 0 THEN s ELSE SubSeq(s, 1, i) \o "." \o SliceFrom(s, i + 2)

extractVitalsFromText(text) ==
  LET t == text
      l == toLowerCase(t)
      mTemp == Search(TempRe, l)
      mBP1 == Search(PressureRe, l)
      mBP == IF mBP1 # <<>> THEN mBP1 ELSE Search(PaTaRe, l)
      mFC == Search(HeartRateRe, l)
      mFR == Search(RespRateRe, l)
      mSat == Search(SaturationRe, l)
      out == (IF mTemp # <<>>
                THEN <<"Temp: " \o replaceComma(Group(t, mTemp, 2)) \o "°C">> ELSE <<>>)
             \o (IF mBP # <<>>
                   THEN <<"PA: " \o Group(t, mBP, 2) \o "/" \o Group(t, mBP, 4)>> ELSE <<>>)
             \o (IF mFC # <<>> THEN <<"FC: " \o Group(t, mFC, 2)>> ELSE <<>>)
             \o (IF mFR # <<>> THEN <<"FR: " \o Group(t, mFR, 2)>> ELSE <<>>)
             \o (IF mSat # <<>> THEN <<"SatO2: " \o Group(t, mSat, 2) \o "%">> ELSE <<>>)
  IN  joinWith(out, " · ")

RECURSIVE splitOnY(_)
\* chunk.split(/\s+y\s+/i) on a whitespace-normalised chunk
splitOnY(chunk) ==
  LET i == indexOf(toLowerCase(chunk), " y ")
  IN  IF i < 0 THEN <<chunk>>
      ELSE <<SubSeq(chunk, 1, i)>> \o splitOnY(SliceFrom(chunk, i + 4))

extractPrescriptionFromText(text) ==
  LET t == text
      m == Search(PrescriptionRe, toLowerCase(t))
      chunk == safeTrim(Group(t, m, 2))
      parts == TrimAndFilter(splitOnY(chunk))
  IN  IF m = <<>> THEN ""
      ELSE IF Len(parts) >= 2
        THEN joinWith([k \in DOMAIN parts |->
                         IF StartsWith(parts[k], "-") THEN parts[k]
                         ELSE "- " \o parts[k]], "\n")
        ELSE chunk

\* an empty patch, and patch[key] = val
NoPatch == [k \in {} |-> ""]
Put(patch, key, val) ==
  [k \in DOMAIN patch \cup {key} |-> IF k = key THEN val ELSE patch[k]]
\* if (val) patch[key] = val
PutText(patch, key, val) == IF val # "" THEN Put(patch, key, val) ELSE patch
\* m ? safeTrim(m[1]) : ""
GroupText(t, m) == IF m = <<>> THEN "" ELSE safeTrim(Group(t, m, 2))
\* if (m) patch[key] = safeTrim(m[1])
PutGroup(patch, key, t, m) ==
  IF m = <<>> THEN patch ELSE Put(patch, key, safeTrim(Group(t, m, 2)))
\* a || b of two match results
OrMatch(m1, m2) == IF m1 # <<>> THEN m1 ELSE m2
\* if (planTxt && !rx.includes(planTxt)) patch.plan = planTxt
PutPlan(patch, rx, planTxt) ==
  IF planTxt # "" /\ ~includes(toLowerCase(safeTrim(rx)), toLowerCase(planTxt))
    THEN Put(patch, "plan", planTxt) ELSE patch
\* { matched, sectionsPatch }
SnippetResult(patch) == [matched |-> DOMAIN patch # {}, sectionsPatch |-> patch]

\* the snippets found in the trimmed text t, l its lower-case copy
snippetsOf(t, l) ==
  SnippetResult(
    PutPlan(
      PutText(
        PutGroup(
          PutGroup(
            PutText(
              PutGroup(
                PutGroup(NoPatch, "motivo", t, Search(MotivoRe, l)),
                "antecedentes", t, Search(AntecedentesRe, l)),
              "signos", extractVitalsFromText(t)),
            "impresion", t, OrMatch(Search(ImpresionRe, l), Search(AparentementeRe, l))),
          "diagnostico", t, Search(DiagnosticoRe, l)),
        "prescripcion", extractPrescriptionFromText(t)),
      extractPrescriptionFromText(t), GroupText(t, Search(PlanRe, l))))

\* the sectionsPatch of extractSectionSnippets; matched is "some key was set"
extractSectionSnippets(text) == snippetsOf(safeTrim(text), toLowerCase(safeTrim(text)))

mergeSections(prev, patch) ==
  [k \in DOMAIN prev \cup DOMAIN patch |->
     IF k \in DOMAIN patch
       THEN mergeText(IF k \in DOMAIN prev THEN prev[k] ELSE "", patch[k])
       ELSE prev[k]]

(***************************************************************************)
(* extractPatientPatch                                                     *)
(***************************************************************************)
\* [A-ZÁÉÍÓÚÑ] and [a-záéíóúñ] under /i, on lower-cased text
LetterSet == {Ch(LowerChars, i) : i \in 1..Len(LowerChars)}
\* [A-ZÁÉÍÓÚÑ][a-záéíóúñ]+
NameWord == AtLeast(LetterSet, 2)
\* [\d\s\-]
DigitSpaceDash == DigitSet \cup WhiteSet \cup {"-"}

NameRe ==
  <<Cat(<<Wb, Opt(Cat(<<Lit("paciente"), Ws1>>)),
          Alt(<<Cat(<<Lit("se"), Ws1, Lit("llama")>>),
                Cat(<<Lit("nombre"), Ws1, Lit("del"), Ws1, Lit("paciente"), Ws1,
                      Lit("es")>>),
                Cat(<<Lit("nombre"), Ws1, Lit("es")>>)>>),
          Ws1>>),
    Cat(<<NameWord,
          Opt(Cat(<<Ws1, NameWord,
                    Opt(Cat(<<Ws1, NameWord, Opt(Cat(<<Ws1, NameWord>>))>>))>>))>>)>>

AgeRe ==
  <<Cat(<<Wb, Lit("tiene"), Ws1>>),
    Rep(DigitSet, 1, 3),
    Cat(<<Ws0, Lit("a"), OneOf({"ñ", "n"}), Lit("o"), Opt(Lit("s")), Wb>>)>>

SexRe ==
  <<Cat(<<Wb, Lit("sexo"), Ws0, Opt(EsOrColon), Ws0>>),
    Alt(<<Lit("masculino"), Lit("femenino"), Lit("hombre"), Lit("mujer")>>),
    Wb>>

DpiRe ==
  <<Cat(<<Wb,
          Alt(<<Lit("dpi"),
                Cat(<<Lit("documento"), Ws1, Lit("personal"), Ws1, Lit("de"), Ws1,
                      Lit("identificaci"), Oo, Lit("n")>>)>>),
          Wb, Ws0,
          Opt(Alt(<<Lit("es"), Lit(":"),
                    Cat(<<Lit("n"), Uu, Lit("mero"), Ws1, Lit("es")>>),
                    Cat(<<Lit("n"), Uu, Lit("mero"), Ws1, Lit("de"), Ws1>>)>>)),
          Ws0>>),
    AtLeast(DigitSpaceDash, 10)>>

PhoneRe ==
  <<Cat(<<Wb, Alt(<<Cat(<<Lit("tel"), Ee, Lit("fono")>>), Lit("celular")>>), Wb, Ws0,
          Opt(EsOrColon), Ws0>>),
    AtLeast(DigitSpaceDash, 8)>>

RecordRe ==
  <<Cat(<<Wb,
          Alt(<<Lit("expediente"),
                Cat(<<Lit("no."), Ws0, Lit("expediente")>>),
                Cat(<<Lit("n"), Uu, Lit("mero"), Ws1, Lit("de"), Ws1,
                      Lit("expediente")>>)>>),
          Wb, Ws0, Opt(EsOrColon), Ws0>>),
    AtLeast(AsciiWordSet \cup {"-"}, 3)>>

RECURSIVE digitsOnly(_)
digitsOnly(s) ==
  IF s = "" THEN ""
  ELSE (IF IsDigit(Ch(s, 1)) THEN Ch(s, 1) ELSE "") \o digitsOnly(SliceFrom(s, 2))

\* the length of a DPI that is written in groups of 4, 5 and 4
DpiDigits == 13
formatDpi(raw) ==
  LET d == digitsOnly(raw)
  IN  IF Len(d) = DpiDigits
        THEN SubSeq(d, 1, 4) \o " " \o SubSeq(d, 5, 9) \o " " \o SliceFrom(d, 10)
        ELSE d

\* v === "hombre" ? "Masculino" : v === "mujer" ? "Femenino" : capitalised v
sexOf(v) ==
  CASE v \in {"hombre", "masculino"} -> "Masculino"
    [] v \in {"mujer", "femenino"} -> "Femenino"

extractPatientPatch(text) ==
  LET t == text
      l == toLowerCase(t)
      mSex == Search(SexRe, l)
      mDpi == Search(DpiRe, l)
      p1 == PutGroup(NoPatch, "name", t, Search(NameRe, l))
      p2 == PutGroup(p1, "age", t, Search(AgeRe, l))
      p3 == IF mSex # <<>> THEN Put(p2, "sex", sexOf(Group(l, mSex, 2))) ELSE p2
      p4 == IF mDpi # <<>> THEN Put(p3, "dpi", formatDpi(Group(t, mDpi, 2))) ELSE p3
      p5 == PutGroup(p4, "phone", t, Search(PhoneRe, l))
  IN  PutGroup(p5, "record", t, Search(RecordRe, l))

PatientKeys == {"name", "age", "sex", "dpi", "phone", "record"}
\* useState({ name: "", age: "", ... })
DEFAULT_PATIENT == [k \in PatientKeys |-> ""]

\* mergePatient that lets the patch win
mergePatientOverwriting(prev, patch) ==
  [k \in DOMAIN prev \cup DOMAIN patch |->
     IF k \in DOMAIN patch /\ safeTrim(patch[k]) # "" THEN safeTrim(patch[k])
     ELSE prev[k]]

\* a field is written only when the patch has text for it and it has none
mergePatient(prev, patch) ==
  [k \in DOMAIN prev \cup DOMAIN patch |->
     IF k \in DOMAIN patch /\ safeTrim(patch[k]) # ""
          /\ (k \notin DOMAIN prev \/ safeTrim(prev[k]) = "")
       THEN safeTrim(patch[k])
       ELSE prev[k]]

(***************************************************************************)
(* ICD-10 suggestions by rule.                                             *)
(***************************************************************************)
ICD10_RULES ==
  <<[id |-> "headache",
     triggers |-> <<Cat(<<Wb, Lit("dolor"), Ws1, Lit("de"), Ws1, Lit("cabeza"), Wb>>),
                    Word("cefalea"),
                    Cat(<<Wb, Lit("migra"), OneOf({"ñ", "n"}), Lit("a"), Wb>>),
                    Cat(<<Wb, Lit("dolor"), Ws1, Lit("de"), Ws1, Lit("cr"), Aa,
                          Lit("neo"), Wb>>)>>,
     suggestions |-> <<[code |-> "R51", title |-> "Cefalea"],
                       [code |-> "G43.9", title |-> "Migraña, no especificada"],
                       [code |-> "G44.2", title |-> "Cefalea tensional, no especificada"]>>],
    [id |-> "sorethroat",
     triggers |-> <<Cat(<<Wb, Lit("dolor"), Ws1, Lit("de"), Ws1, Lit("garganta"), Wb>>),
                    Word("faringitis"),
                    Word("amigdalitis")>>,
     suggestions |-> <<[code |-> "J02.9", title |-> "Faringitis aguda, no especificada"],
                       [code |-> "J03.90", title |-> "Amigdalitis aguda, no especificada"],
                       [code |-> "J06.9",
                        title |-> "Infección aguda de vías respiratorias superiores, no especificada"]>>],
    [id |-> "fever",
     triggers |-> <<Word("fiebre"),
                    Cat(<<Wb, Lit("temperatura"), Ws1, Lit("alta"), Wb>>)>>,
     suggestions |-> <<[code |-> "R50.9", title |-> "Fiebre, no especificada"],
                       [code |-> "B34.9", title |-> "Infección viral, no especificada"],
                       [code |-> "A09",
                        title |-> "Gastroenteritis y colitis de origen infeccioso, no especificada"]>>]>>

\* rule.triggers.some((re) => re.test(t)), l the lower-case copy of t
ruleFires(rule, l) == \E i \in DOMAIN rule.triggers : Search(<<rule.triggers[i]>>, l) # <<>>

CodesOf(list) == {list[i].code : i \in DOMAIN list}

RECURSIVE appendNew(_, _, _)
\* out followed by those of xs whose code is not in seen
appendNew(out, xs, seen) ==
  IF xs = <<>> THEN out
  ELSE IF Head(xs).code \in seen THEN appendNew(out, Tail(xs), seen)
  ELSE appendNew(Append(out, Head(xs)), Tail(xs), seen)

RECURSIVE uniqueByCode(_, _)
\* hits.filter(...) with the Set seen: the first entry of each code
uniqueByCode(hits, seen) ==
  IF hits = <<>> THEN <<>>
  ELSE IF Head(hits).code \in seen THEN uniqueByCode(Tail(hits), seen)
  ELSE <<Head(hits)>> \o uniqueByCode(Tail(hits), seen \cup {Head(hits).code})

\* the suggestions of the rules that fire, in the order of the table
hitsOf(l) ==
  Flatten([r \in DOMAIN ICD10_RULES |->
             IF ruleFires(ICD10_RULES[r], l) THEN ICD10_RULES[r].suggestions ELSE <<>>])

deriveIcd10SuggestionsFromText(text) ==
  IF safeTrim(text) = "" THEN <<>>
  ELSE uniqueByCode(hitsOf(toLowerCase(safeTrim(text))), {})

\* an updater that adds all that was derived
accumulateAll(prev, derived) == prev \o derived

\* the updater of setIcd10Suggestions in rec.onresult
accumulateSuggestions(prev, derived) ==
  IF derived = <<>> THEN prev ELSE appendNew(prev, derived, CodesOf(prev))

\* the number of suggestions the diagnosis card and the report show
ShownSuggestions == 6

(***************************************************************************)
(* What rec.onresult of App.jsx does to the sections.                      *)
(***************************************************************************)
\* a fallback insert that does not look at what the extraction matched
insertFallbackAlways(secs, modeV, autoMatched, target, toInsert) ==
  IF modeV = "section" /\ safeTrim(toInsert) # ""
    THEN [secs EXCEPT ![target] = safeTrim(secs[target] \o " " \o toInsert)]
    ELSE secs

\* the fallback insert: section mode, nothing matched, something to insert
insertFallback(secs, modeV, autoMatched, target, toInsert) ==
  IF modeV = "section" /\ ~autoMatched /\ safeTrim(toInsert) # ""
    THEN [secs EXCEPT ![target] = safeTrim(secs[target] \o " " \o toInsert)]
    ELSE secs

\* the merges of the auto-extraction, the header's first
mergeIf(cond, secs, patch) == IF cond THEN mergeSections(secs, patch) ELSE secs

mergeAuto(prev, byHeader, header, snip) ==
  mergeIf(snip.matched,
          mergeIf(byHeader, prev, Put(NoPatch, header.key, header.cleaned)),
          snip.sectionsPatch)

onResultWith(prev, finalRaw, modeV, active, header, pPatch, snip) ==
  insertFallback(
    mergeAuto(prev, header.key # NoKey /\ safeTrim(header.cleaned) # "", header, snip),
    modeV,
    DOMAIN pPatch # {}
      \/ (header.key # NoKey /\ safeTrim(header.cleaned) # "")
      \/ snip.matched,
    IF header.key # NoKey THEN header.key ELSE active,
    IF header.key # NoKey THEN header.cleaned ELSE finalRaw)

\* a handler that writes the first suggestion into the diagnosis by itself
appOnResultInserting(prev, finalRaw, modeV, active, auto) ==
  [prev EXCEPT !["diagnostico"] =
     safeTrim(@ \o " " \o ICD10_RULES[1].suggestions[1].code)]

appOnResultSections(prev, finalRaw, modeV, active, auto) ==
  IF auto
    THEN onResultWith(prev, finalRaw, modeV, active, appDetectSectionHeader(finalRaw),
                      extractPatientPatch(finalRaw), extractSectionSnippets(finalRaw))
    ELSE insertFallback(prev, modeV, FALSE, active, finalRaw)

(***************************************************************************)
(* State.                                                                  *)
(*                                                                         *)
(* phase = "session": the dictation client of part_002 (React state, the   *)
(* refs of the AI queue, the requests in flight) with the backend of       *)
(* analyze.js answering its requests.                                      *)
(* phase = "text" / "merge": one call of a pure function of the engine on  *)
(* inputs drawn in Init (hArgs), its result in hRes.                       *)
(***************************************************************************)
VARIABLES
  phase,          \* which of the three machines this behaviour runs
  hArgs,          \* the arguments of the pure call
  hRes,           \* its result, [op |-> "none"] before the call
  mode,           \* useState("section"): "section" | "free"
  activeSection,  \* useState("motivo")
  autoSection,    \* useState(true)
  aiEnabled,      \* useState(true), read through aiEnabledRef
  aiStatus,       \* "idle" | "analyzing" | "error"
  aiError,        \* the error message shown
  sections,       \* the manual note: key -> text
  aiSections,     \* the AI note: key -> text (read through aiSectionsRef)
  fullTranscript,
  timeline,       \* sequence of [section, text]
  isListening,
  pendingTextRef, \* the queue of deltas not yet sent
  aiTimerRef,     \* TRUE while the 700 ms debounce timer is armed
  aiInFlightRef,
  stopTimers,     \* setTimeout(() => flushAI(), 0) of stop() not yet run
  net,            \* the requests sent and not yet answered
  sentLog,        \* history: delta_text of every request sent, in order
  owed,           \* history: deltas queued since the last reset and not yet
                  \* carried by a call that succeeded, in dictation order
  stopOwed,       \* history: the queue as it stood at the last stop(), until sent
  last,           \* history: the handler that ran last, with its input
  budget,         \* user and environment events still allowed
  patient,        \* App.jsx: the patient profile, field -> text
  icd10Suggestions, \* App.jsx: the accumulated suggestions, [code, title]
  recognition,    \* the recognizer behind recognitionRef: "idle" | "running" |
                  \* "ending" (stopped or failed, its end event still to come)
  shouldListenRef, \* useRef(false): the user wants the dictation to run
  restartTimers   \* the restart timers armed and not yet run, by the place
                  \* that armed them: "error" | "end" | "start"

harness == <<phase, hArgs, hRes>>
ui == <<mode, activeSection, autoSection, aiEnabled, isListening>>
note == <<sections, aiSections, fullTranscript, timeline>>
queue == <<pendingTextRef, aiTimerRef, aiInFlightRef, stopTimers, net>>
hist == <<sentLog, owed, stopOwed>>
profile == <<patient, icd10Suggestions>>
speech == <<recognition, shouldListenRef, restartTimers>>
vars == <<phase, hArgs, hRes, mode, activeSection, autoSection, aiEnabled, aiStatus,
          aiError, sections, aiSections, fullTranscript, timeline, isListening,
          pendingTextRef, aiTimerRef, aiInFlightRef, stopTimers, net, sentLog,
          owed, stopOwed, last, budget, patient, icd10Suggestions, recognition,
          shouldListenRef, restartTimers>>

\* the number of user and environment events of a session
MaxEvents == 3

\* batch.join(" ")
RECURSIVE join(_)
join(xs) ==
  IF xs = <<>> THEN ""
  ELSE IF Len(xs) = 1 THEN xs[1]
  ELSE xs[1] \o " " \o join(Tail(xs))

\* what the recognizer may deliver as the final text of one result event
DictChunks == {"tos seca", "Dx: gripe", "  "}

\* the places that arm a restart timer, and no timer armed
TimerKinds == {"error", "end", "start"}
NoTimers == [k \in TimerKinds |-> 0]

\* the state after construction: the useState and useRef initial values
Constructed ==
  /\ mode = "section"
  /\ activeSection = "motivo"
  /\ autoSection = TRUE
  /\ aiEnabled = TRUE
  /\ aiStatus = "idle"
  /\ aiError = ""
  /\ sections = DEFAULT_SECTIONS
  /\ aiSections = DEFAULT_SECTIONS
  /\ fullTranscript = ""
  /\ timeline = <<>>
  /\ isListening = FALSE
  /\ pendingTextRef = <<>>
  /\ aiTimerRef = FALSE
  /\ aiInFlightRef = FALSE
  /\ stopTimers = 0
  /\ net = <<>>
  /\ sentLog = <<>>
  /\ owed = <<>>
  /\ stopOwed = <<>>
  /\ last = [op |-> "init", arg |-> ""]
  /\ patient = DEFAULT_PATIENT
  /\ icd10Suggestions = <<>>
  /\ recognition = "idle"
  /\ shouldListenRef = FALSE
  /\ restartTimers = NoTimers

SessionInit ==
  /\ phase = "session"
  /\ hArgs = [op |-> "none"]
  /\ hRes = [op |-> "none"]
  /\ Constructed
  /\ budget = MaxEvents

(***************************************************************************)
(* The AI queue: enqueueAI and flushAI.                                    *)
(***************************************************************************)
\* the two early returns of enqueueAI
enqueueGuard(text) == aiEnabled /\ safeTrim(text) # ""

\* enqueueAI that puts the text in front of the queue
enqueueAIFront(text) ==
  IF enqueueGuard(text)
    THEN /\ pendingTextRef' = <<safeTrim(text)>> \o pendingTextRef
         /\ aiTimerRef' = TRUE
         /\ owed' = Append(owed, safeTrim(text))
    ELSE UNCHANGED <<pendingTextRef, aiTimerRef, owed>>

\* enqueueAI(text): push and re-arm the debounce timer
enqueueAI(text) ==
  IF enqueueGuard(text)
    THEN /\ pendingTextRef' = Append(pendingTextRef, safeTrim(text))
         /\ aiTimerRef' = TRUE
         /\ owed' = Append(owed, safeTrim(text))
    ELSE UNCHANGED <<pendingTextRef, aiTimerRef, owed>>

\* flushAI without the early return on a request in flight
flushGuardIgnoringFlight == aiEnabled /\ pendingTextRef # <<>>

\* the three early returns of flushAI
flushGuard == aiEnabled /\ ~aiInFlightRef /\ pendingTextRef # <<>>

\* flushAI up to its await: the request leaves with the whole queue
flushAI ==
  IF flushGuard
    THEN /\ aiInFlightRef' = TRUE
         /\ aiStatus' = "analyzing"
         /\ aiError' = ""
         /\ net' = Append(net, [sections |-> aiSections, delta |-> join(pendingTextRef)])
         /\ sentLog' = Append(sentLog, join(pendingTextRef))
         /\ stopOwed' = <<>>
         /\ pendingTextRef' = <<>>
    ELSE UNCHANGED <<aiInFlightRef, aiStatus, aiError, net, sentLog, stopOwed,
                     pendingTextRef>>

\* the failed batch put behind what arrived during the call
requeueBehind(delta, rest) == Append(rest, delta)

\* pendingTextRef.current = [delta, ...pendingTextRef.current]
requeue(delta, rest) == <<delta>> \o rest

Remove(xs, i) == SubSeq(xs, 1, i - 1) \o SubSeq(xs, i + 1, Len(xs))

(***************************************************************************)
(* Handlers of the session.                                                *)
(***************************************************************************)
\* the handler without its early return
acceptAlways(finalRaw) == TRUE

\* a timeline that takes the new entry in front
prependEntry(tl, entry) == <<entry>> \o tl

\* setTimeline((prev) => [...prev, entry])
appendEntry(tl, entry) == Append(tl, entry)

\* if (!finalRaw) return;
acceptFinal(finalRaw) == finalRaw # ""

\* a transcript that takes the text without its header
appendCleaned(prev, finalRaw) ==
  safeTrim(prev \o " " \o detectSectionHeader(finalRaw).cleaned)

\* setFullTranscript((prev) => safeTrim(`${prev} ${finalRaw}`))
appendTranscript(prev, finalRaw) == safeTrim(prev \o " " \o finalRaw)

\* a handler that leaves the note to the remote response
localNoteDeferred(prev, finalRaw, fallbackKey) == prev

\* (prev) => smartDistributeText(prev, finalRaw, fallbackKey).next
localNote(prev, finalRaw, fallbackKey) ==
  smartDistributeText(prev, finalRaw, fallbackKey).next

\* rec.onresult with the final text finalChunk
OnResult(finalChunk) ==
  LET finalRaw == safeTrim(finalChunk)
      d == detectSectionHeader(finalRaw)
      fallbackKey == IF mode = "section" THEN activeSection ELSE "impresion"
  IN  /\ phase = "session" /\ isListening /\ budget > 0
      /\ budget' = budget - 1
      /\ last' = [op |-> "onresult", arg |-> finalChunk]
      /\ IF acceptFinal(finalRaw)
           THEN /\ fullTranscript' = appendTranscript(fullTranscript, finalRaw)
                /\ timeline' = appendEntry(timeline,
                     [section |-> IF mode = "section" THEN activeSection ELSE "(libre)",
                      text |-> finalRaw])
                /\ activeSection' =
                     IF mode = "section" /\ autoSection /\ d.key # NoKey
                       THEN d.key ELSE activeSection
                /\ sections' = localNote(sections, finalRaw, fallbackKey)
                /\ aiSections' =
                     IF aiEnabled
                       THEN localNote(aiSections, finalRaw, fallbackKey)
                       ELSE aiSections
                /\ enqueueAI(finalRaw)
           ELSE UNCHANGED <<fullTranscript, timeline, activeSection, sections,
                            aiSections, pendingTextRef, aiTimerRef, owed>>
      /\ UNCHANGED <<harness, speech, profile, mode, autoSection, aiEnabled, isListening, aiStatus,
                     aiError, aiInFlightRef, stopTimers, net, sentLog, stopOwed>>

\* the debounce timer of enqueueAI fires: flushAI()
TimerFire ==
  /\ phase = "session" /\ aiTimerRef
  /\ aiTimerRef' = FALSE
  /\ last' = [op |-> "timer", arg |-> IF flushGuard THEN "sent" ELSE "skipped"]
  /\ flushAI
  /\ UNCHANGED <<harness, speech, profile, ui, note, stopTimers, owed, budget>>

\* start(): the microphone is granted and the recognizer starts
Start ==
  /\ phase = "session" /\ ~isListening
  /\ isListening' = TRUE
  /\ last' = [op |-> "start", arg |-> ""]
  /\ UNCHANGED <<harness, speech, profile, mode, activeSection, autoSection, aiEnabled, aiStatus,
                 aiError, note, queue, hist, budget>>

\* stop(), reached through toggleMic while listening
Stop ==
  /\ phase = "session" /\ isListening /\ budget > 0
  /\ budget' = budget - 1
  /\ isListening' = FALSE
  /\ stopTimers' = stopTimers + 1
  /\ stopOwed' = IF aiEnabled THEN pendingTextRef ELSE stopOwed
  /\ last' = [op |-> "stop", arg |-> ""]
  /\ UNCHANGED <<harness, speech, profile, mode, activeSection, autoSection, aiEnabled, aiStatus,
                 aiError, note, pendingTextRef, aiTimerRef, aiInFlightRef, net,
                 sentLog, owed>>

\* the setTimeout(() => flushAI(), 0) of stop() runs
StopFlush ==
  /\ phase = "session" /\ stopTimers > 0
  /\ stopTimers' = stopTimers - 1
  /\ last' = [op |-> "stopflush", arg |-> IF flushGuard THEN "sent" ELSE "skipped"]
  /\ flushAI
  /\ UNCHANGED <<harness, speech, profile, ui, note, aiTimerRef, owed, budget>>

\* the response of request i is ok: setAiSections((p) => ({...p, ...data.sections}))
RemoteSuccess(i) ==
  /\ phase = "session" /\ i \in DOMAIN net
  /\ aiSections' = spread(aiSections, handlerSections(net[i].sections, net[i].delta))
  /\ aiStatus' = "idle"
  /\ aiInFlightRef' = FALSE
  /\ net' = Remove(net, i)
  /\ owed' = IF Len(owed) >= Len(pendingTextRef)
               THEN SubSeq(owed, Len(owed) - Len(pendingTextRef) + 1, Len(owed))
               ELSE owed
  /\ last' = [op |-> "success", arg |-> net[i].delta]
  /\ UNCHANGED <<harness, speech, profile, ui, aiError, sections, fullTranscript, timeline,
                 pendingTextRef, aiTimerRef, stopTimers, sentLog, stopOwed, budget>>

\* a failure that also throws the AI note away
RemoteFailClearing(i) ==
  /\ phase = "session" /\ i \in DOMAIN net /\ budget > 0
  /\ budget' = budget - 1
  /\ aiStatus' = "error"
  /\ aiError' = "HTTP 500"
  /\ aiSections' = DEFAULT_SECTIONS
  /\ pendingTextRef' = requeue(net[i].delta, pendingTextRef)
  /\ aiInFlightRef' = FALSE
  /\ net' = Remove(net, i)
  /\ last' = [op |-> "fail", arg |-> net[i].delta]
  /\ UNCHANGED <<harness, speech, profile, ui, sections, fullTranscript, timeline, aiTimerRef,
                 stopTimers, hist>>

\* fetch throws or the response is not ok: the batch goes back to the front
RemoteFail(i) ==
  /\ phase = "session" /\ i \in DOMAIN net /\ budget > 0
  /\ budget' = budget - 1
  /\ aiStatus' = "error"
  /\ aiError' = "HTTP 500"
  /\ pendingTextRef' = requeue(net[i].delta, pendingTextRef)
  /\ aiInFlightRef' = FALSE
  /\ net' = Remove(net, i)
  /\ last' = [op |-> "fail", arg |-> net[i].delta]
  /\ UNCHANGED <<harness, speech, profile, ui, note, aiTimerRef, stopTimers, hist>>

\* what the user may type into the text area of a section
EditSamples == {[key |-> "motivo", value |-> "nota manual"],
                [key |-> "diagnostico", value |-> ""]}

\* setUiSectionValue(key, value): the text area of a section is edited
EditSection(key, value) ==
  /\ phase = "session" /\ budget > 0
  /\ budget' = budget - 1
  /\ IF aiEnabled
       THEN aiSections' = [aiSections EXCEPT ![key] = value] /\ sections' = sections
       ELSE sections' = [sections EXCEPT ![key] = value] /\ aiSections' = aiSections
  /\ last' = [op |-> "edit", arg |-> value]
  /\ UNCHANGED <<harness, speech, profile, ui, aiStatus, aiError, fullTranscript, timeline, queue,
                 hist>>

\* clearAll()
ClearAll ==
  /\ phase = "session" /\ budget > 0
  /\ budget' = budget - 1
  /\ sections' = DEFAULT_SECTIONS
  /\ aiSections' = DEFAULT_SECTIONS
  /\ fullTranscript' = ""
  /\ timeline' = <<>>
  /\ pendingTextRef' = <<>>
  /\ owed' = IF net = <<>> THEN <<>> ELSE SubSeq(owed, 1, Len(owed) - Len(pendingTextRef))
  /\ stopOwed' = <<>>
  /\ last' = [op |-> "clear", arg |-> ""]
  /\ UNCHANGED <<harness, speech, profile, ui, aiStatus, aiError, aiTimerRef, aiInFlightRef,
                 stopTimers, net, sentLog>>

\* the "IA" checkbox: setAiEnabled(e.target.checked)
ToggleAI ==
  /\ phase = "session" /\ budget > 0
  /\ budget' = budget - 1
  /\ aiEnabled' = ~aiEnabled
  /\ stopOwed' = <<>>
  /\ last' = [op |-> "toggle", arg |-> ""]
  /\ UNCHANGED <<harness, speech, profile, mode, activeSection, autoSection, isListening, aiStatus,
                 aiError, note, queue, sentLog, owed>>

(***************************************************************************)
(* The dictation client of App.jsx (phase = "app"): sections, patient      *)
(* profile, transcript, timeline and suggestions; it has no remote queue.  *)
(***************************************************************************)
AppInit ==
  /\ phase = "app"
  /\ hArgs = [op |-> "none"]
  /\ hRes = [op |-> "none"]
  /\ Constructed
  /\ budget = MaxEvents

\* what the recognizer may deliver to App.jsx as the final text of one event
AppChunks == {"se llama Ana", "paciente se llama Luis, dolor de cabeza",
              "fiebre, faringitis y dolor de cabeza", "Dx: gripe", "  "}

\* the header of the event, or none with auto-section off
appHeader(finalRaw) ==
  IF autoSection THEN appDetectSectionHeader(finalRaw)
  ELSE [key |-> NoKey, cleaned |-> finalRaw]

\* the section named by the timeline entry of the event
timelineSection(key) ==
  IF mode = "section" THEN (IF key # NoKey THEN key ELSE activeSection) ELSE "(libre)"

\* rec.onresult of App.jsx with the final text finalChunk
AppOnResult(finalChunk) ==
  /\ phase = "app" /\ isListening /\ budget > 0
  /\ budget' = budget - 1
  /\ last' = [op |-> "onresult", arg |-> finalChunk]
  /\ IF acceptFinal(safeTrim(finalChunk))
       THEN /\ activeSection' =
                 IF appHeader(safeTrim(finalChunk)).key # NoKey
                   THEN appHeader(safeTrim(finalChunk)).key ELSE activeSection
            /\ fullTranscript' = appendTranscript(fullTranscript, safeTrim(finalChunk))
            /\ patient' =
                 IF autoSection
                   THEN mergePatient(patient, extractPatientPatch(safeTrim(finalChunk)))
                   ELSE patient
            /\ sections' = appOnResultSections(sections, safeTrim(finalChunk), mode,
                                               activeSection, autoSection)
            /\ timeline' = appendEntry(timeline,
                 [section |-> timelineSection(appHeader(safeTrim(finalChunk)).key),
                  text |-> safeTrim(finalChunk)])
            /\ icd10Suggestions' =
                 accumulateSuggestions(icd10Suggestions,
                                       deriveIcd10SuggestionsFromText(safeTrim(finalChunk)))
       ELSE UNCHANGED <<activeSection, fullTranscript, patient, sections, timeline,
                        icd10Suggestions>>
  /\ UNCHANGED <<harness, speech, mode, autoSection, aiEnabled, isListening, aiStatus, aiError,
                 aiSections, queue, hist>>

\* start() of App.jsx
AppStart ==
  /\ phase = "app" /\ ~isListening
  /\ isListening' = TRUE
  /\ last' = [op |-> "start", arg |-> ""]
  /\ UNCHANGED <<harness, speech, profile, mode, activeSection, autoSection, aiEnabled,
                 aiStatus, aiError, note, queue, hist, budget>>

\* the buttons "Por secciones" / "Libre": setMode
SetMode(m) ==
  /\ phase \in {"session", "app"} /\ budget > 0 /\ m # mode
  /\ budget' = budget - 1
  /\ mode' = m
  /\ last' = [op |-> "mode", arg |-> m]
  /\ UNCHANGED <<harness, speech, profile, activeSection, autoSection, aiEnabled, isListening,
                 aiStatus, aiError, note, queue, hist>>

\* the checkbox "Auto-sección": setAutoSection(e.target.checked)
SetAutoSection ==
  /\ phase \in {"session", "app"} /\ budget > 0
  /\ budget' = budget - 1
  /\ autoSection' = ~autoSection
  /\ last' = [op |-> "auto", arg |-> ""]
  /\ UNCHANGED <<harness, speech, profile, mode, activeSection, aiEnabled, isListening,
                 aiStatus, aiError, note, queue, hist>>

\* what the user may type into a field of the patient card
PatientEdits == {[key |-> "name", value |-> " "], [key |-> "name", value |-> "Eva"]}

\* onChange of a patient field: setPatient((p) => ({ ...p, [key]: value }))
EditPatient(key, value) ==
  /\ phase = "app" /\ budget > 0
  /\ budget' = budget - 1
  /\ patient' = [patient EXCEPT ![key] = value]
  /\ last' = [op |-> "editPatient", arg |-> value]
  /\ UNCHANGED <<harness, speech, icd10Suggestions, ui, aiStatus, aiError, note, queue, hist>>

\* entries of the patient registry that may be loaded
RegistrySamples == {[name |-> "Rosa", age |-> "40"]}

\* loadPatientFromRegistry(entry): every field from the entry, "" when absent
LoadPatientFromRegistry(entry) ==
  /\ phase = "app" /\ budget > 0
  /\ budget' = budget - 1
  /\ patient' = [k \in PatientKeys |-> IF k \in DOMAIN entry THEN entry[k] ELSE ""]
  /\ last' = [op |-> "loadPatient", arg |-> entry.name]
  /\ UNCHANGED <<harness, speech, icd10Suggestions, ui, aiStatus, aiError, note, queue, hist>>

\* addSuggestionToDx(sug), sug one of the suggestions shown
AddSuggestionToDx(i) ==
  /\ phase = "app" /\ budget > 0
  /\ i \in DOMAIN icd10Suggestions /\ i <= ShownSuggestions
  /\ budget' = budget - 1
  /\ sections' = [sections EXCEPT !["diagnostico"] =
                    safeTrim(@ \o " " \o icd10Suggestions[i].code \o " ("
                             \o icd10Suggestions[i].title \o ")")]
  /\ last' = [op |-> "addSuggestion", arg |-> icd10Suggestions[i].code]
  /\ UNCHANGED <<harness, speech, profile, ui, aiStatus, aiError, aiSections, fullTranscript,
                 timeline, queue, hist>>

\* a reset that leaves the patient profile
AppClearKeepingPatient ==
  /\ phase = "app" /\ budget > 0
  /\ budget' = budget - 1
  /\ sections' = DEFAULT_SECTIONS
  /\ fullTranscript' = ""
  /\ timeline' = <<>>
  /\ icd10Suggestions' = <<>>
  /\ last' = [op |-> "clear", arg |-> ""]
  /\ UNCHANGED <<harness, speech, patient, ui, aiStatus, aiError, aiSections, queue, hist>>

\* clearAll() of App.jsx
AppClearAll ==
  /\ phase = "app" /\ budget > 0
  /\ budget' = budget - 1
  /\ sections' = DEFAULT_SECTIONS
  /\ fullTranscript' = ""
  /\ timeline' = <<>>
  /\ icd10Suggestions' = <<>>
  /\ patient' = DEFAULT_PATIENT
  /\ last' = [op |-> "clear", arg |-> ""]
  /\ UNCHANGED <<harness, speech, ui, aiStatus, aiError, aiSections, queue, hist>>

NextApp ==
  \/ \E c \in AppChunks : AppOnResult(c)
  \/ AppStart
  \/ \E m \in {"section", "free"} : SetMode(m)
  \/ SetAutoSection
  \/ \E e \in PatientEdits : EditPatient(e.key, e.value)
  \/ \E e \in RegistrySamples : LoadPatientFromRegistry(e)
  \/ \E i \in 1..ShownSuggestions : AddSuggestionToDx(i)
  \/ AppClearAll

SpecApp == AppInit /\ [][NextApp]_vars

(***************************************************************************)
(* One call of a function of the classifier on drawn inputs.               *)
(***************************************************************************)
\* note states the call may start from: empty, edited by hand (white space
\* as typed), and one whose prescription already carries a dose
PrevSamples ==
  {DEFAULT_SECTIONS,
   [DEFAULT_SECTIONS EXCEPT !["motivo"] = "dolor  de cabeza ",
                            !["diagnostico"] = "neumonía",
                            !["prescripcion"] = "reposo"],
   [DEFAULT_SECTIONS EXCEPT !["prescripcion"] = "ibuprofeno 400 mg",
                            !["plan"] = "control en 3 dias"]}

RxDxDelta ==
  "Tratamiento: amoxicilina 500 mg cada 8 horas por 7 dias. Diagnóstico: faringitis aguda."

DeltaSamples ==
  {"", "  ", " \n ",
   "Diagnóstico: neumonía",
   "Diagnóstico: neumonía. Tos seca",
   "dx - gripe",
   "Receta: ibuprofeno",
   "Plan: reposo;",
   "Motivo de la consulta: dolor de garganta",
   RxDxDelta,
   "se indica amoxicilina 500 mg con diagnostico de faringitis",
   "paciente estable",
   "dolor y alergia",
   "TA 120/80 con dx de gripe",
   "control y referir a especialista",
   "cuadro probable",
   "Tratamiento: reposo",
   "Diagnóstico: neumonía, plan reposo"}

FallbackSamples == {"motivo", "impresion", "plan", "acuerdos"}

TextInit ==
  /\ phase = "text"
  /\ hArgs \in [prev : PrevSamples, delta : DeltaSamples, fallbackKey : FallbackSamples]
  /\ hRes = [op |-> "none"]
  /\ Constructed
  /\ budget = 0

\* smartDistributeText(prev, delta, fallbackKey)
CallSmartDistribute ==
  /\ phase = "text" /\ hRes.op = "none"
  /\ hRes' = [op |-> "smartDistributeText",
              segs |-> splitSegments(hArgs.delta),
              next |-> smartDistributeText(hArgs.prev, hArgs.delta, hArgs.fallbackKey).next]
  /\ UNCHANGED <<phase, hArgs, speech, profile, ui, aiStatus, aiError, note, queue, hist, last, budget>>

\* POST /api/clinote/analyze with current.sections = prev and delta_text = delta
CallHandler ==
  /\ phase = "text" /\ hRes.op = "none"
  /\ hRes' = [op |-> "handler",
              segs |-> splitSegments(hArgs.delta),
              next |-> handlerSections(hArgs.prev, hArgs.delta),
              questions |-> buildQuestions(handlerSections(hArgs.prev, hArgs.delta))]
  /\ UNCHANGED <<phase, hArgs, speech, profile, ui, aiStatus, aiError, note, queue, hist, last, budget>>

\* bestBucket(seg, fallbackKey) on the delta taken as one segment
CallBestBucket ==
  /\ phase = "text" /\ hRes.op = "none"
  /\ hRes' = [op |-> "bestBucket",
              score |-> bucketScore(safeTrim(hArgs.delta)),
              key |-> bestBucket(safeTrim(hArgs.delta), hArgs.fallbackKey)]
  /\ UNCHANGED <<phase, hArgs, speech, profile, ui, aiStatus, aiError, note, queue, hist, last, budget>>

\* rec.onresult of App.jsx with the final text delta, in section mode with
\* auto-section on and fallbackKey the active section
CallAppOnResult ==
  /\ phase = "text" /\ hRes.op = "none"
  /\ hRes' = [op |-> "appOnResult",
              next |-> IF acceptFinal(safeTrim(hArgs.delta))
                         THEN appOnResultSections(hArgs.prev, safeTrim(hArgs.delta),
                                                  "section", hArgs.fallbackKey, TRUE)
                         ELSE hArgs.prev]
  /\ UNCHANGED <<phase, hArgs, speech, profile, ui, aiStatus, aiError, note, queue, hist, last, budget>>

NextText == CallSmartDistribute \/ CallHandler \/ CallBestBucket \/ CallAppOnResult

SpecText == TextInit /\ [][NextText]_vars

(***************************************************************************)
(* mergeText on every pair of short texts, applied once and then again.    *)
(***************************************************************************)
\* the longest field text and new text drawn
MaxLen == 3
MergeAlphabet == {"a", "A", "b", " "}

RECURSIVE TextsOfLen(_)
TextsOfLen(n) ==
  IF n = 0 THEN {""} ELSE {t \o c : t \in TextsOfLen(n - 1), c \in MergeAlphabet}
ShortTexts == UNION {TextsOfLen(n) : n \in 0..MaxLen}

MergeInit ==
  /\ phase = "merge"
  /\ hArgs \in [a : ShortTexts, b : ShortTexts]
  /\ hRes = [op |-> "none"]
  /\ Constructed
  /\ budget = 0

\* mergeText(a, b)
CallMerge ==
  /\ phase = "merge" /\ hRes.op = "none"
  /\ hRes' = [op |-> "mergeText", r |-> mergeText(hArgs.a, hArgs.b)]
  /\ UNCHANGED <<phase, hArgs, speech, profile, ui, aiStatus, aiError, note, queue, hist, last, budget>>

\* mergeText(mergeText(a, b), b)
CallMergeAgain ==
  /\ phase = "merge" /\ hRes.op = "mergeText"
  /\ hRes' = [op |-> "mergeTwice", r |-> hRes.r, rr |-> mergeText(hRes.r, hArgs.b)]
  /\ UNCHANGED <<phase, hArgs, speech, profile, ui, aiStatus, aiError, note, queue, hist, last, budget>>

NextMerge == CallMerge \/ CallMergeAgain

SpecMerge == MergeInit /\ [][NextMerge]_vars

(***************************************************************************)
(* extractPatientPatch on sentences put together from phrases: a lead, an  *)
(* age phrase, a sex phrase and a closing phrase, each possibly absent.    *)
(***************************************************************************)
LeadPhrases == {"El paciente ", "Paciente se llama Ana Lopez, "}
AgePhrases == {"", "tiene 34 años, ", "tiene 7 anos y "}
SexPhrases == {"", "sexo femenino", "sexo: hombre", "sexo es Masculino"}
ClosingPhrases == {"", ", DPI 1234 56789 0101", ", celular 5555-1234",
                   ", expediente es A-12", ", telefono:         "}

\* the sentence dictated
patientText(a) == a.lead \o a.age \o a.sex \o a.closing

PatientInit ==
  /\ phase = "patient"
  /\ hArgs \in [lead : LeadPhrases, age : AgePhrases, sex : SexPhrases,
                 closing : ClosingPhrases]
  /\ hRes = [op |-> "none"]
  /\ Constructed
  /\ budget = 0

\* a patch that names every field, empty where nothing was found
extractPatientPatchFull(text) ==
  [k \in PatientKeys |->
     IF k \in DOMAIN extractPatientPatch(text) THEN extractPatientPatch(text)[k] ELSE ""]

\* the patch handed to mergePatient
patientPatchOf(text) == extractPatientPatch(text)

\* extractPatientPatch(text)
CallExtractPatient ==
  /\ phase = "patient" /\ hRes.op = "none"
  /\ hRes' = [op |-> "extractPatientPatch", patch |-> patientPatchOf(patientText(hArgs))]
  /\ UNCHANGED <<phase, hArgs, speech, profile, ui, aiStatus, aiError, note, queue, hist, last, budget>>

NextPatient == CallExtractPatient

SpecPatient == PatientInit /\ [][NextPatient]_vars

(***************************************************************************)
(* splitIfMixedRxDx on segments put together from a prescription phrase, a *)
(* joint and a diagnosis phrase, in either order.  The callers hand it the *)
(* segments of splitSegments: trimmed, white space collapsed, not empty.   *)
(***************************************************************************)
RxPhrases == {"", "reposo", "receta", "se deja", "prescrib", "se indica reposo",
              "ibuprofeno 400 mg", "cada 8 horas"}
Joints == {" ", " con ", ""}
\* "Diagnóstico", as it is spelt, does not contain "diagnos"
DxPhrases == {"", "diagnostico de gripe", "dx gripe", "impresion clinica gripe",
              "Diagnóstico: gripe, diagnostico final",
              "Diagnostico: gripe, diagnostico final"}

\* the segment: prescription first, or diagnosis first
segmentOf(a) ==
  safeTrim(IF a.rxFirst THEN a.rx \o a.joint \o a.dx ELSE a.dx \o a.joint \o a.rx)

SplitInit ==
  /\ phase = "split"
  /\ hArgs \in {a \in [rx : RxPhrases, joint : Joints, dx : DxPhrases, rxFirst : BOOLEAN] :
                  segmentOf(a) # ""}
  /\ hRes = [op |-> "none"]
  /\ Constructed
  /\ budget = 0

\* splitIfMixedRxDx(seg)
CallSplitIfMixed ==
  /\ phase = "split" /\ hRes.op = "none"
  /\ hRes' = [op |-> "splitIfMixedRxDx", seg |-> segmentOf(hArgs),
              pieces |-> splitIfMixedRxDx(segmentOf(hArgs))]
  /\ UNCHANGED <<phase, hArgs, speech, profile, ui, aiStatus, aiError, note, queue, hist, last, budget>>

NextSplit == CallSplitIfMixed

SpecSplit == SplitInit /\ [][NextSplit]_vars

(***************************************************************************)
(* The auto-restart logic of part_002 (phase = "speech"): the recognizer,  *)
(* shouldListenRef, isListening and the restart timers.  The recognizer    *)
(* throws on start() unless it is idle; after stop() or an error it is     *)
(* "ending" until its end event has been delivered.  In the other phases   *)
(* the recognizer is left out and isListening alone stands for it.         *)
(***************************************************************************)
\* the number of user actions and recognizer failures of a dictation
MaxSpeechEvents == 5

SpeechInit ==
  /\ phase = "speech"
  /\ hArgs = [op |-> "none"]
  /\ hRes = [op |-> "none"]
  /\ Constructed
  /\ budget = MaxSpeechEvents

\* everything the restart logic does not touch
SpeechFrame ==
  UNCHANGED <<harness, profile, mode, activeSection, autoSection, aiEnabled, aiStatus,
              aiError, note, queue, hist>>

\* recognitionRef.current?.stop()
stopped(r) == IF r = "running" THEN "ending" ELSE r

armed(timers, kind) == [timers EXCEPT ![kind] = @ + 1]

\* start(), reached through toggleMic while not listening, permission granted
SpeechStart ==
  /\ phase = "speech" /\ budget > 0 /\ ~isListening
  /\ budget' = budget - 1
  /\ shouldListenRef' = TRUE
  /\ IF recognition = "idle"
       THEN /\ recognition' = "running"
            /\ isListening' = TRUE
            /\ restartTimers' = restartTimers
       ELSE /\ recognition' = stopped(recognition)
            /\ isListening' = isListening
            /\ restartTimers' = armed(restartTimers, "start")
  /\ last' = [op |-> "start", arg |-> ""]
  /\ SpeechFrame

\* stop(), reached through toggleMic while listening
SpeechStop ==
  /\ phase = "speech" /\ budget > 0 /\ isListening
  /\ budget' = budget - 1
  /\ shouldListenRef' = FALSE
  /\ recognition' = stopped(recognition)
  /\ isListening' = FALSE
  /\ last' = [op |-> "stop", arg |-> ""]
  /\ UNCHANGED restartTimers
  /\ SpeechFrame

\* the errors after which rec.onerror arms a restart
TransientErrors == {"no-speech", "aborted", "audio-capture", "network"}
\* the errors the recognizer may report
ErrorSamples == {"no-speech", "network", "not-allowed"}

\* rec.onerror: the recognition session fails with error msg and will end
OnError(msg) ==
  /\ phase = "speech" /\ budget > 0 /\ recognition = "running"
  /\ budget' = budget - 1
  /\ recognition' = "ending"
  /\ IF shouldListenRef /\ msg \in TransientErrors
       THEN /\ restartTimers' = armed(restartTimers, "error")
            /\ UNCHANGED <<shouldListenRef, isListening>>
       ELSE /\ shouldListenRef' = FALSE
            /\ isListening' = FALSE
            /\ UNCHANGED restartTimers
  /\ last' = [op |-> "onerror", arg |-> msg]
  /\ SpeechFrame

\* rec.onend: the end event of a session that was stopped or failed, or of one
\* the service ended by itself
OnEnd ==
  /\ phase = "speech"
  /\ recognition = "ending" \/ (recognition = "running" /\ budget > 0)
  /\ budget' = IF recognition = "running" THEN budget - 1 ELSE budget
  /\ recognition' = "idle"
  /\ isListening' = FALSE
  /\ restartTimers' = IF shouldListenRef THEN armed(restartTimers, "end") ELSE restartTimers
  /\ last' = [op |-> "onend", arg |-> ""]
  /\ UNCHANGED shouldListenRef
  /\ SpeechFrame

\* if (!shouldListenRef.current) return;
restartGuard == shouldListenRef

\* the callback of a restart timer armed by rec.onerror (450 ms), rec.onend
\* (250 ms) or the catch of start() (250 ms)
RestartTimer(kind) ==
  /\ phase = "speech" /\ restartTimers[kind] > 0
  /\ restartTimers' = [restartTimers EXCEPT ![kind] = @ - 1]
  /\ IF ~restartGuard
       THEN UNCHANGED <<recognition, isListening, shouldListenRef>>
       ELSE IF recognition = "idle"
         THEN /\ recognition' = "running"
              /\ isListening' = TRUE
              /\ UNCHANGED shouldListenRef
         ELSE /\ UNCHANGED recognition
              /\ isListening' = IF kind = "end" THEN isListening ELSE FALSE
              /\ shouldListenRef' = IF kind = "start" THEN FALSE ELSE shouldListenRef
  /\ last' = [op |-> "restart", arg |-> kind]
  /\ UNCHANGED budget
  /\ SpeechFrame

NextSpeech ==
  \/ SpeechStart
  \/ SpeechStop
  \/ \E msg \in ErrorSamples : OnError(msg)
  \/ OnEnd
  \/ \E k \in TimerKinds : RestartTimer(k)

SpecSpeech == SpeechInit /\ [][NextSpeech]_vars

(***************************************************************************)
(* The session of the dictation client.                                    *)
(***************************************************************************)
Init == SessionInit

Next ==
  \/ \E c \in DictChunks : OnResult(c)
  \/ TimerFire
  \/ Start
  \/ Stop
  \/ StopFlush
  \/ \E i \in DOMAIN net : RemoteSuccess(i)
  \/ \E i \in DOMAIN net : RemoteFail(i)
  \/ ClearAll
  \/ ToggleAI
  \/ \E e \in EditSamples : EditSection(e.key, e.value)
  \/ \E m \in {"section", "free"} : SetMode(m)
  \/ SetAutoSection

Spec == Init /\ [][Next]_vars

\* the session with remote analysis left on and every call answered with
\* success: the timers that are armed fire and the requests in flight are
\* answered, while the user need not do anything further
NextLive ==
  \/ \E c \in DictChunks : OnResult(c)
  \/ TimerFire
  \/ Start
  \/ Stop
  \/ StopFlush
  \/ \E i \in DOMAIN net : RemoteSuccess(i)

\* setTimeout callbacks run, and fetch is answered.  The response is enabled
\* exactly while a request is in flight and takes it out of net, so its weak
\* fairness, WF_vars(\E i \in DOMAIN net : RemoteSuccess(i)), is stated as:
\* again and again no request is in flight
Scheduling ==
  /\ WF_vars(TimerFire)
  /\ WF_vars(StopFlush)
  /\ []<>(net = <<>>)

SpecLive == Init /\ [][NextLive]_vars /\ Scheduling

\* the two dictation clients, part_002 and App.jsx
SpecClients == (SessionInit \/ AppInit) /\ [][Next \/ NextApp]_vars

\* the session together with the single calls of the classifier
SpecClassify == (SessionInit \/ TextInit) /\ [][Next \/ NextText]_vars
(***************************************************************************)
(* Properties of the AI queue.                                             *)
(***************************************************************************)
InFlightDeltas == [i \in DOMAIN net |-> net[i].delta]

OnResultStep == last'.op = "onresult" /\ budget' = budget - 1

SendStep == Len(net') = Len(net) + 1

\* C7: after any interleaving of dictation events, timer firings, stop()
\* calls and remote completions, at most one remote analysis request is in
\* flight, and aiInFlightRef is set whenever one is.
C7_AtMostOneInFlight == Len(net) <= 1 /\ (net # <<>> => aiInFlightRef)

\* a flush was attempted while a request was in flight and did nothing
C7_Witness ==
  /\ Len(net) = 1
  /\ pendingTextRef # <<>>
  /\ last.op \in {"timer", "stopflush"}
  /\ last.arg = "skipped"
  /\ aiEnabled

\* C8: a dictation event that arrives while a request is in flight starts no
\* request; with remote analysis on its text is appended at the end of the
\* pending queue; and every request that leaves carries the whole queue,
\* joined in queue order.
C8_QueuedWhileInFlight ==
  /\ [][(OnResultStep /\ net # <<>>) =>
          /\ net' = net
          /\ (aiEnabled /\ acceptFinal(safeTrim(last'.arg)) =>
                pendingTextRef' = Append(pendingTextRef, safeTrim(last'.arg)))]_vars
  /\ [][SendStep =>
          /\ net'[Len(net')].delta = join(pendingTextRef)
          /\ pendingTextRef' = <<>>]_vars

\* two deltas that arrived during one call have left together in the next
C8_Witness ==
  /\ Len(net) = 1
  /\ Len(sentLog) = 2
  /\ net[1].delta = join(<<"tos seca", "Dx: gripe">>)
  /\ sentLog[1] = "tos seca"

\* C9: when a remote call fails its batch is put back at the front of the
\* pending queue, ahead of what arrived during the call; the in-flight batch
\* followed by the queue always reads as the enqueued deltas in dictation
\* order, none dropped.
C9_RequeuedAtFront ==
  /\ [][\A i \in DOMAIN net :
          (net' = Remove(net, i) /\ last'.op = "fail") =>
             pendingTextRef' = <<net[i].delta>> \o pendingTextRef]_vars
  /\ [](join(InFlightDeltas \o pendingTextRef) = join(owed))

\* a call failed while a later delta was queued: the batch is back in front
C9_Witness ==
  /\ last.op = "fail"
  /\ Len(pendingTextRef) = 2
  /\ pendingTextRef[1] = last.arg
  /\ net = <<>>

\* nothing is left that could still flush: no timer armed, no call in flight
Quiescent == ~aiTimerRef /\ stopTimers = 0 /\ net = <<>>

\* C10: a batch that was queued when stop() was called with remote analysis
\* on has been sent once nothing is left to run.
C10_StopBatchSent == (Quiescent /\ aiEnabled) => stopOwed = <<>>

\* C10, second half: a request that succeeded is not sent again
C10_NotResent ==
  [][last'.op = "success" /\ net' # net => pendingTextRef' = pendingTextRef]_vars
(***************************************************************************)
(* Duplicates within a section.                                            *)
(***************************************************************************)
\* the texts one segment of a delta puts into a section
InsertedOf(seg) ==
  LET h == detectSectionHeader(seg)
      pieces == splitIfMixedRxDx(seg)
  IN  IF h.key # NoKey
        THEN (IF h.cleaned = "" THEN {} ELSE {h.cleaned})
        ELSE {pieces[i] : i \in DOMAIN pieces}

InsertedTexts(text) ==
  LET segs == splitSegments(text)
  IN  UNION {InsertedOf(segs[i]) : i \in DOMAIN segs}

\* needle lies in hay at two places that do not overlap, letter case apart
OccursTwice(hay, needle) ==
  LET h == toLowerCase(hay)
      n == toLowerCase(needle)
  IN  \E i, j \in 1..Len(h) : i + Len(n) <= j /\ At(h, i, n) /\ At(h, j, n)

\* C4: after any sequence of dictation deltas no section, of sections or of
\* aiSections, holds the same dictated text twice.
C4_NoTextTwice ==
  \A e \in DOMAIN timeline : \A t \in InsertedTexts(timeline[e].text) :
    \A k \in SectionKeys :
      ~OccursTwice(sections[k], t) /\ ~OccursTwice(aiSections[k], t)

\* C4, the remote half: one delta, dictated once, is not twice in aiSections
\* after the local update and the response for it
C4_OnceAfterResponse ==
  (Len(timeline) = 1 /\ last.op = "success") =>
     \A t \in InsertedTexts(timeline[1].text) : \A k \in SectionKeys :
        ~OccursTwice(aiSections[k], t)
(***************************************************************************)
(* Properties of the classifier and of the merge engine.                   *)
(***************************************************************************)
IsBlank(s) == \A i \in 1..Len(s) : IsSpace(Ch(s, i))

MaxScore(score) == CHOOSE m \in {score[k] : k \in SectionKeys} :
                     \A k \in SectionKeys : score[k] <= m

\* the first key, in the order of SECTION_DEFS, whose score is the maximum
FirstMaxKey(score) ==
  SECTION_DEFS[CHOOSE i \in DOMAIN SECTION_DEFS :
                 /\ score[SECTION_DEFS[i]] = MaxScore(score)
                 /\ \A j \in 1..(i - 1) : score[SECTION_DEFS[j]] # MaxScore(score)]

\* C2: an empty or white-space-only delta changes nothing: smartDistributeText
\* and the analyze handler return the sections they were given, and the
\* dictation handler adds no timeline entry, no transcript text and nothing
\* to the pending queue, arms no timer and sends no request.
C2_BlankDeltaNoOp ==
  /\ []((hRes.op \in {"smartDistributeText", "handler"} /\ IsBlank(hArgs.delta))
          => hRes.next = hArgs.prev)
  /\ [][(OnResultStep /\ IsBlank(last'.arg)) =>
          UNCHANGED <<sections, aiSections, timeline, fullTranscript,
                      pendingTextRef, aiTimerRef, net, activeSection>>]_vars

\* the handler was called with white space on a note that is not empty
C2_Witness ==
  /\ hRes.op = "handler"
  /\ hArgs.delta = " \n "
  /\ hArgs.prev # DEFAULT_SECTIONS
  /\ hRes.next = hArgs.prev

\* C3 as amended: mergeText is idempotent in its second argument; with b
\* empty the result is a with its white space normalised (safeTrim(a)), with
\* a empty it is safeTrim(b), and when a contains b, letter case apart, it is
\* safeTrim(a).
C3_MergeIdempotent ==
  /\ hRes.op = "mergeTwice" => hRes.rr = hRes.r
  /\ hRes.op = "mergeText" =>
       /\ IsBlank(hArgs.b) => hRes.r = safeTrim(hArgs.a)
       /\ (IsBlank(hArgs.a) /\ ~IsBlank(hArgs.b)) => hRes.r = safeTrim(hArgs.b)
       /\ includes(toLowerCase(hArgs.a), toLowerCase(hArgs.b)) =>
            hRes.r = safeTrim(hArgs.a)

\* a text already present in another letter case was merged twice
C3_Witness ==
  /\ hRes.op = "mergeTwice"
  /\ hArgs.a = "Ab"
  /\ hArgs.b = "ab "
  /\ hRes.rr = "Ab"

\* C3 as stated: with b empty or a containing b the result is a itself, and
\* with a empty it is b trimmed at its ends only.
C3_AsStated ==
  hRes.op = "mergeText" =>
    /\ hArgs.b = "" => hRes.r = hArgs.a
    /\ (hArgs.a = "" /\ hArgs.b # "") => hRes.r = trim(hArgs.b)
    /\ includes(toLowerCase(hArgs.a), toLowerCase(hArgs.b)) => hRes.r = hArgs.a

\* C5: bestBucket returns the first key, in the fixed order, whose score is
\* the maximum when that maximum is above zero, and the fallback key when
\* every score is zero.
C5_FirstMaxOrFallback ==
  hRes.op = "bestBucket" =>
    IF MaxScore(hRes.score) > 0
      THEN hRes.key = FirstMaxKey(hRes.score)
      ELSE hRes.key = hArgs.fallbackKey

\* two keys tie at the maximum and the earlier one is returned
C5_Witness ==
  /\ hRes.op = "bestBucket"
  /\ hRes.score["signos"] = WeightStrong
  /\ hRes.score["diagnostico"] = WeightStrong
  /\ hRes.key = "signos"

\* C6: the delta RxDxDelta gives exactly two segments, neither split further;
\* the first is appended to prescripcion and the second, without its header,
\* to diagnostico; no other section changes.  For smartDistributeText and for
\* the analyze handler.
C6_TreatmentThenDiagnosis ==
  (hRes.op \in {"smartDistributeText", "handler"} /\ hArgs.delta = RxDxDelta) =>
    /\ Len(hRes.segs) = 2
    /\ \A i \in DOMAIN hRes.segs : splitIfMixedRxDx(hRes.segs[i]) = <<hRes.segs[i]>>
    /\ hRes.next =
         [hArgs.prev EXCEPT
            !["prescripcion"] = safeTrim(@ \o " " \o hRes.segs[1]),
            !["diagnostico"] = safeTrim(@ \o " faringitis aguda")]

\* the backend has analysed the delta on a note with earlier text
C6_Witness ==
  /\ hRes.op = "handler"
  /\ hArgs.delta = RxDxDelta
  /\ hArgs.prev["diagnostico"] = "neumonía"
  /\ hRes.next["diagnostico"] = "neumonía faringitis aguda"
  /\ hRes.next["prescripcion"] =
       "reposo Tratamiento: amoxicilina 500 mg cada 8 horas por 7 dias"
(***************************************************************************)
(* Deltas that begin with a section header.                                *)
(***************************************************************************)
\* old with r appended, as the code writes it
Appended(old, r) == IF r = "" THEN old ELSE safeTrim(old \o " " \o r)

\* the sections other than key are as they were
OthersUnchanged(key) == \A k \in SectionKeys \ {key} : hRes.next[k] = hArgs.prev[k]

\* C1 as amended.  smartDistributeText: a delta that is one segment beginning
\* with a header leaves the header's section equal to its previous text with
\* the segment's header-stripped remainder appended, and no other section
\* changed.  The backend does the same and then marks a prescription without
\* dose as pending.  The dictation handler of App.jsx, auto-section on, merges
\* the remainder of the whole delta into the header's section with mergeText
\* (nothing is added when the section already contains it), and changes
\* other sections only by merging the snippets of extractSectionSnippets.
C1_HeaderDelta ==
  LET segs == splitSegments(hArgs.delta)
      h == detectSectionHeader(segs[1])
      expected == [hArgs.prev EXCEPT ![h.key] = Appended(@, h.cleaned)]
      ah == appDetectSectionHeader(hArgs.delta)
      patch == extractSectionSnippets(hArgs.delta).sectionsPatch
      merged == IF ah.cleaned = "" THEN hArgs.prev[ah.key]
                ELSE mergeText(hArgs.prev[ah.key], ah.cleaned)
  IN  /\ (hRes.op = "smartDistributeText" /\ Len(segs) = 1 /\ h.key # NoKey) =>
           hRes.next = expected
      /\ (hRes.op = "handler" /\ Len(segs) = 1 /\ h.key # NoKey) =>
           hRes.next = markPendingDose(expected)
      /\ (hRes.op = "appOnResult" /\ ah.key # NoKey) =>
           \A k \in SectionKeys :
             hRes.next[k] =
               LET base == IF k = ah.key THEN merged ELSE hArgs.prev[k]
               IN  IF k \in DOMAIN patch THEN mergeText(base, patch[k]) ELSE base

\* the backend appended the remainder to a prescription that had text and
\* marked it as pending
C1_Witness ==
  /\ hRes.op = "handler"
  /\ hArgs.delta = "Receta: ibuprofeno"
  /\ hArgs.prev["prescripcion"] = "reposo"
  /\ hRes.next["prescripcion"] = "reposo ibuprofeno" \o PendingMarker
  /\ OthersUnchanged("prescripcion")

\* C1 as stated: for every delta that begins with a header, the header's
\* section is its previous text with the header-stripped remainder of the
\* delta appended and no other section is changed, for all three.
C1_AsStated ==
  LET h == IF hRes.op = "appOnResult" THEN appDetectSectionHeader(hArgs.delta)
           ELSE detectSectionHeader(hArgs.delta)
  IN  (hRes.op \in {"smartDistributeText", "handler", "appOnResult"} /\ h.key # NoKey) =>
        /\ hRes.next[h.key] = Appended(hArgs.prev[h.key], h.cleaned)
        /\ OthersUnchanged(h.key)
(***************************************************************************)
(* Remote failure and remote responses against the local note.             *)
(***************************************************************************)
FailStep == last'.op = "fail" /\ budget' = budget - 1

\* C11: a failed remote call leaves sections and aiSections as local
\* classification produced them; it sets aiStatus to error, records the
\* message and puts the batch back in the queue.  With remote analysis off a
\* dictation event classifies locally into sections and sends nothing.
C11_LocalKeptOnFailure ==
  /\ [][FailStep =>
          /\ UNCHANGED <<sections, aiSections, fullTranscript, timeline>>
          /\ aiStatus' = "error" /\ aiError' # ""
          /\ pendingTextRef' = <<last'.arg>> \o pendingTextRef]_vars
  /\ [][(OnResultStep /\ ~aiEnabled /\ acceptFinal(safeTrim(last'.arg))) =>
          /\ sections' = smartDistributeText(sections, safeTrim(last'.arg),
                             IF mode = "section" THEN activeSection ELSE "impresion").next
          /\ UNCHANGED <<aiSections, pendingTextRef, aiTimerRef, net>>]_vars

\* a call failed and the AI note still holds the locally classified delta
C11_Witness ==
  /\ last.op = "fail"
  /\ aiStatus = "error"
  /\ aiSections["motivo"] = "tos seca"
  /\ sections["motivo"] = "tos seca"
  /\ pendingTextRef = <<"tos seca">>

SuccessStep == last'.op = "success" /\ Len(net') = Len(net) - 1

\* C12: applying a remote response loses nothing of the AI note: the text
\* each section of aiSections held just before the response, whether put
\* there by local classification or by a manual edit while the call was in
\* flight, is still contained in that section afterwards.
C12_ResponseKeepsMerged ==
  [][SuccessStep => \A k \in SectionKeys : includes(aiSections'[k], aiSections[k])]_vars
(***************************************************************************)
(* The patient profile of App.jsx.                                         *)
(***************************************************************************)
AppOnResultStep == phase = "app" /\ last'.op = "onresult" /\ budget' = budget - 1

\* C13 as amended: a dictation event never changes a patient field that
\* holds text other than white space; a populated field changes only by an
\* explicit edit, a registry load or a full reset.
C13_PopulatedFieldKept ==
  /\ [][AppOnResultStep =>
          \A k \in PatientKeys : safeTrim(patient[k]) # "" => patient'[k] = patient[k]]_vars
  /\ [][\A k \in PatientKeys :
          (safeTrim(patient[k]) # "" /\ patient'[k] # patient[k]) =>
             last'.op \in {"editPatient", "loadPatient", "clear"}]_vars

\* a second name was dictated and the first one is still there
C13_Witness ==
  /\ phase = "app"
  /\ last.op = "onresult"
  /\ last.arg = "paciente se llama Luis, dolor de cabeza"
  /\ patient["name"] = "Ana"

\* C13 as stated: a dictation event never changes a field that is not empty
C13_AsStated ==
  [][AppOnResultStep =>
       \A k \in PatientKeys : patient[k] # "" => patient'[k] = patient[k]]_vars

(***************************************************************************)
(* Timeline and reset.                                                     *)
(***************************************************************************)
AcceptedStep ==
  /\ last'.op = "onresult" /\ budget' = budget - 1
  /\ acceptFinal(safeTrim(last'.arg))

\* C14: every accepted dictation event, in either client and whatever the
\* mode and the classification, puts exactly one entry with its text at the
\* end of the timeline and leaves the earlier entries as they were; the
\* timeline changes in no other way except that a full reset empties it.
C14_TimelineAppendOnly ==
  /\ [][AcceptedStep =>
          /\ Len(timeline') = Len(timeline) + 1
          /\ SubSeq(timeline', 1, Len(timeline)) = timeline
          /\ timeline'[Len(timeline')].text = safeTrim(last'.arg)]_vars
  /\ [][timeline' # timeline =>
          AcceptedStep \/ (last'.op = "clear" /\ timeline' = <<>>)]_vars

\* in free mode of App.jsx a second event with a header was added at the end
C14_Witness ==
  /\ phase = "app"
  /\ mode = "free"
  /\ Len(timeline) = 2
  /\ timeline[2] = [section |-> "(libre)", text |-> "Dx: gripe"]
  /\ timeline[1].text = "se llama Ana"

\* C15: right after clearAll the ten sections are empty and the transcript,
\* the timeline, and, in App.jsx, the patient profile and the suggestions,
\* in part_002 the AI note and the pending queue, are at their defaults.
C15_ClearAllDefaults ==
  last.op = "clear" =>
    /\ sections = DEFAULT_SECTIONS
    /\ fullTranscript = ""
    /\ timeline = <<>>
    /\ phase = "app" => (patient = DEFAULT_PATIENT /\ icd10Suggestions = <<>>)
    /\ phase = "session" => (aiSections = DEFAULT_SECTIONS /\ pendingTextRef = <<>>)

\* clearAll ran in part_002 after a delta had been dictated and sent, with
\* the request still in flight
C15_Witness ==
  /\ last.op = "clear"
  /\ phase = "session"
  /\ sentLog = <<"tos seca">>
  /\ net # <<>>
  /\ aiSections = DEFAULT_SECTIONS
  /\ pendingTextRef = <<>>

(***************************************************************************)
(* The shape of the note.                                                  *)
(***************************************************************************)
IsNote(secs) == DOMAIN secs = SectionKeys /\ \A k \in SectionKeys : secs[k] \in STRING

\* C16: in every reachable state sections and aiSections, and the sections
\* carried by a request in flight, have exactly the ten keys, each with a
\* string value.
C16_TenKeysAlways ==
  /\ IsNote(sections)
  /\ IsNote(aiSections)
  /\ \A i \in DOMAIN net : IsNote(net[i].sections)

\* a response has been applied to a note that was edited by hand
C16_Witness ==
  /\ phase = "session"
  /\ last.op = "success"
  /\ aiSections["motivo"] # ""
  /\ aiSections["diagnostico"] = ""
  /\ IsNote(aiSections)

(***************************************************************************)
(* Questions of the backend.                                               *)
(***************************************************************************)
InSeq(x, q) == \E i \in DOMAIN q : q[i] = x

NoDosePattern(rx) ==
  ~HasDoseMg(toLowerCase(rx)) /\ ~HasEveryHours(toLowerCase(rx))
    /\ ~HasForDays(toLowerCase(rx))

\* C17: for a note whose prescription has text without a dose, frequency or
\* duration pattern and whose diagnosis has text, buildQuestions includes the
\* dosage question and not the final-diagnosis question.
C17_DoseQuestionAsked ==
  (hRes.op = "handler"
     /\ safeTrim(hRes.next["prescripcion"]) # ""
     /\ NoDosePattern(safeTrim(hRes.next["prescripcion"]))
     /\ safeTrim(hRes.next["diagnostico"]) # "") =>
    /\ InSeq(DoseQuestion, hRes.questions)
    /\ ~InSeq(DiagnosisQuestion, hRes.questions)

\* the note of the handler had a prescription without dose and a diagnosis
C17_Witness ==
  /\ hRes.op = "handler"
  /\ hArgs.delta = "Receta: ibuprofeno"
  /\ hArgs.prev["diagnostico"] = "neumonía"
  /\ hRes.questions = <<VitalsQuestion, DoseQuestion>>

(***************************************************************************)
(* Suggestions.                                                            *)
(***************************************************************************)
NoDuplicateCodes(list) ==
  \A i, j \in DOMAIN list : list[i].code = list[j].code => i = j

AllCodes == UNION {CodesOf(ICD10_RULES[r].suggestions) : r \in DOMAIN ICD10_RULES}

\* C18: the list accumulated over any sequence of dictation events never
\* holds a code twice; a dictation event whose text holds "dolor de cabeza"
\* leaves code R51 in it; and on an empty list the event leaves exactly what
\* deriveIcd10SuggestionsFromText returns for its text, so that the same
\* holds of that result.
C18_SuggestionsKeyedByCode ==
  /\ [](NoDuplicateCodes(icd10Suggestions))
  /\ [][(AppOnResultStep /\ includes(toLowerCase(last'.arg), "dolor de cabeza")) =>
          /\ "R51" \in CodesOf(icd10Suggestions')
          /\ icd10Suggestions = <<>> =>
                icd10Suggestions' = deriveIcd10SuggestionsFromText(last'.arg)]_vars

\* the phrase was dictated in two events and R51 is in the list once
C18_Witness ==
  /\ phase = "app"
  /\ Len(timeline) = 2
  /\ includes(timeline[1].text, "dolor de cabeza")
  /\ includes(timeline[2].text, "dolor de cabeza")
  /\ timeline[1].text # timeline[2].text
  /\ Cardinality({i \in DOMAIN icd10Suggestions : icd10Suggestions[i].code = "R51"}) = 1

\* C19: the suggestion list never holds more than 6 entries.
C19_AtMostSix == Len(icd10Suggestions) <= ShownSuggestions

\* C20: a dictation event never puts a suggestion code into a section; a
\* code enters the note only by addSuggestionToDx, which appends
\* "code (title)" of the chosen suggestion to diagnostico and changes
\* neither another section nor the suggestion list.
C20_SuggestionsNotInserted ==
  /\ [][\A k \in SectionKeys : \A c \in AllCodes :
          (includes(sections'[k], c) /\ ~includes(sections[k], c)) =>
             (last'.op = "addSuggestion" /\ k = "diagnostico")]_vars
  /\ [][(last'.op = "addSuggestion" /\ budget' = budget - 1) =>
          /\ \E i \in DOMAIN icd10Suggestions :
                sections' = [sections EXCEPT !["diagnostico"] =
                  safeTrim(@ \o " " \o icd10Suggestions[i].code \o " ("
                           \o icd10Suggestions[i].title \o ")")]
          /\ icd10Suggestions' = icd10Suggestions]_vars

\* a suggestion was added by hand to a diagnosis that had text
C20_Witness ==
  /\ phase = "app"
  /\ last.op = "addSuggestion"
  /\ sections["diagnostico"] = "gripe R51 (Cefalea)"
  /\ Len(icd10Suggestions) = 3

(***************************************************************************)
(* Properties of extractPatientPatch.                                      *)
(***************************************************************************)
\* C21: for "El paciente tiene 34 años, sexo femenino" extractPatientPatch
\* returns exactly age "34" and sex "Femenino"; in general the record holds
\* a field only when the sentence carried the phrase its pattern looks for.
C21_PatchOnlyMatched ==
  hRes.op = "extractPatientPatch" =>
    /\ patientText(hArgs) = "El paciente tiene 34 años, sexo femenino" =>
          hRes.patch = [k \in {"age", "sex"} |-> IF k = "age" THEN "34" ELSE "Femenino"]
    /\ DOMAIN hRes.patch \subseteq PatientKeys
    /\ "name" \in DOMAIN hRes.patch => includes(toLowerCase(patientText(hArgs)), "se llama")
    /\ "age" \in DOMAIN hRes.patch => hArgs.age # ""
    /\ "sex" \in DOMAIN hRes.patch => hArgs.sex # ""
    /\ "dpi" \in DOMAIN hRes.patch => includes(toLowerCase(patientText(hArgs)), "dpi")
    /\ "phone" \in DOMAIN hRes.patch =>
          IncludesAny(toLowerCase(patientText(hArgs)), {"celular", "telefono"})
    /\ "record" \in DOMAIN hRes.patch =>
          includes(toLowerCase(patientText(hArgs)), "expediente")

\* C21 witness: the sentence of the claim has been analysed and gave the two fields
C21_Witness ==
  /\ hRes.op = "extractPatientPatch"
  /\ patientText(hArgs) = "El paciente tiene 34 años, sexo femenino"
  /\ DOMAIN hRes.patch = {"age", "sex"}

(***************************************************************************)
(* Local classification against the remote call.                           *)
(***************************************************************************)
SessionAccepted == phase = "session" /\ AcceptedStep

\* the fallback key of the event: the active section, or "impresion" in free mode
FallbackOf == IF mode = "section" THEN activeSection ELSE "impresion"

\* C22: the handler run of every accepted dictation event classifies the
\* text locally into sections, and into aiSections when remote analysis is
\* on, whatever the state of the remote call (off, idle, in flight, failed);
\* the run sends nothing, it only queues the delta, so the request follows
\* the local update; and the manual note never waits for a response: it
\* changes only by a dictation event, an edit or a reset.
C22_LocalBeforeRemote ==
  /\ [][SessionAccepted =>
          /\ sections' = smartDistributeText(sections, safeTrim(last'.arg), FallbackOf).next
          /\ sections' # sections
          /\ aiEnabled =>
                /\ aiSections' =
                     smartDistributeText(aiSections, safeTrim(last'.arg), FallbackOf).next
                /\ pendingTextRef' = Append(pendingTextRef, safeTrim(last'.arg))
          /\ UNCHANGED <<net, sentLog, aiInFlightRef, aiStatus>>]_vars
  /\ [][SendStep => last'.op \in {"timer", "stopflush"}]_vars
  /\ [][sections' # sections => last'.op \in {"onresult", "edit", "clear"}]_vars

\* C22 witness: with a request in flight a second event was classified
\* into both notes at once, its delta still waiting in the queue
C22_Witness ==
  /\ last = [op |-> "onresult", arg |-> "Dx: gripe"]
  /\ net # <<>> /\ aiInFlightRef
  /\ sentLog = <<"tos seca">>
  /\ sections["diagnostico"] = "gripe"
  /\ aiSections["diagnostico"] = "gripe"
  /\ pendingTextRef = <<"Dx: gripe">>

(***************************************************************************)
(* Properties of splitIfMixedRxDx.                                         *)
(***************************************************************************)
\* the two pieces put side by side give the segment back, up to the blank
\* between them
Partitions(pieces, seg) ==
  \/ pieces[1] \o pieces[2] = seg
  \/ pieces[1] \o " " \o pieces[2] = seg

NewEntry == timeline'[Len(timeline')]

\* C24: the timeline entry of an accepted dictation event names the section
\* its text was assigned to: in section mode a section whose text the event
\* changed, in free mode "(libre)".
C24_EntryNamesAssigned ==
  [][SessionAccepted =>
       IF mode = "section"
         THEN /\ NewEntry.section \in SectionKeys
              /\ sections'[NewEntry.section] # sections[NewEntry.section]
         ELSE NewEntry.section = "(libre)"]_vars

Kept(old, new) == new = old \/ StartsWith(new, safeTrim(old))

\* C26: smartDistributeText, the backend's analyzeDelta and the handler of
\* App.jsx (mergeSections and the fallback insertion) delete nothing: each
\* section is left as it was or its previous text, white space normalised,
\* is a prefix of its new text; in a session the manual note loses text
\* only by a manual edit or a full reset.
C26_LocalOnlyAdds ==
  /\ [](hRes.op \in {"smartDistributeText", "handler", "appOnResult"} =>
          \A k \in SectionKeys : Kept(hArgs.prev[k], hRes.next[k]))
  /\ [][(\E k \in SectionKeys : ~Kept(sections[k], sections'[k])) =>
          last'.op \in {"edit", "clear"}]_vars

\* C26 witness: the backend added a medicine behind the text the
\* prescription already held
C26_Witness ==
  /\ hRes.op = "handler"
  /\ hArgs.prev["prescripcion"] = "reposo"
  /\ hArgs.delta = "Receta: ibuprofeno"
  /\ StartsWith(hRes.next["prescripcion"], "reposo ibuprofeno")
  /\ hRes.next["motivo"] = "dolor  de cabeza "

(***************************************************************************)
(* The active section and the fallback insertion.                          *)
(***************************************************************************)
\* the header the client finds at the start of the text
HeaderOf(text) ==
  IF phase = "app" THEN appDetectSectionHeader(text) ELSE detectSectionHeader(text)

AutoSectionStep == AcceptedStep /\ mode = "section" /\ autoSection

\* the sections the snippets of the text are merged into
SnippetKeys(text) == DOMAIN extractSectionSnippets(text).sectionsPatch

\* C27: in section mode with auto-section on, an event that starts with the
\* header of section K makes K the active section, in either client; in
\* App.jsx a header-less event that no extractor matches (no patient field,
\* no snippet) is appended to the section then active, and a header-less
\* event for which the extraction matched changes only the sections its
\* snippets name: its text is not inserted into the active section.
C27_HeaderSetsActive ==
  /\ [][AutoSectionStep => HeaderOf(safeTrim(last'.arg)).key \in {NoKey, activeSection'}]_vars
  /\ [][(AutoSectionStep /\ last'.arg = "Dx: gripe") =>
          activeSection' = "diagnostico"]_vars
  /\ [][(AutoSectionStep /\ phase = "app" /\ activeSection' = activeSection
           /\ HeaderOf(safeTrim(last'.arg)).key = NoKey) =>
          IF DOMAIN extractPatientPatch(safeTrim(last'.arg)) = {}
               /\ SnippetKeys(last'.arg) = {}
            THEN sections' = [sections EXCEPT ![activeSection] =
                                safeTrim(@ \o " " \o safeTrim(last'.arg))]
            ELSE \A k \in SectionKeys \ SnippetKeys(last'.arg) :
                   sections'[k] = sections[k]]_vars
  /\ [][(AutoSectionStep /\ activeSection' # activeSection) =>
          HeaderOf(safeTrim(last'.arg)).key # NoKey]_vars

\* C27 witness: after "Dx: gripe" made the diagnosis the active section of
\* App.jsx, a text nothing matched was appended to it
C27_Witness ==
  /\ phase = "app"
  /\ mode = "section" /\ autoSection
  /\ activeSection = "diagnostico"
  /\ last = [op |-> "onresult", arg |-> "fiebre, faringitis y dolor de cabeza"]
  /\ sections["diagnostico"] = "gripe fiebre, faringitis y dolor de cabeza"

(***************************************************************************)
(* Progress of the AI queue.                                               *)
(***************************************************************************)
\* C28: with remote analysis on and every call answered with success, a
\* delta in the pending queue is eventually sent, the user doing nothing
\* more: the queue, which only a request empties here, becomes empty.
\* Behaviours that use up the events of the session are left aside, so the
\* delta must leave while the user could still dictate or stop but does not.
C28_EventuallySent == (pendingTextRef # <<>>) ~> (pendingTextRef = <<>> \/ budget = 0)

(***************************************************************************)
(* A reset against a request in flight.                                    *)
(***************************************************************************)
\* the response, ok or not, of a request that was in flight during clearAll
\* arrives as the first thing after it
ResponseAfterReset == last.op = "clear" /\ last'.op \in {"success", "fail"}

\* C29: a full reset is not undone by the request that was in flight when
\* clearAll ran: when its response arrives, with success or with a failure,
\* the AI note and the pending queue stay empty.
C29_ResetNotUndone ==
  [][ResponseAfterReset =>
       /\ aiSections' = DEFAULT_SECTIONS
       /\ pendingTextRef' = <<>>]_vars

(***************************************************************************)
(* The auto-restart logic.                                                 *)
(***************************************************************************)
\* C30: once the restart timers have run, isListening agrees with the
\* recognizer: if the recognizer is running, isListening is true; and a
\* restart timer that runs while the user wants no dictation (after stop())
\* does not start the recognizer.
C30_ListeningAgrees ==
  /\ []((recognition = "running" /\ restartTimers = NoTimers) => isListening)
  /\ [][(last'.op = "restart" /\ ~shouldListenRef) => recognition' = recognition]_vars
====
